---- MODULE Spec2Model ----
(***************************************************************************)
(* Rule Engine, Traffic Modification Engine and pattern matcher of the     *)
(* Watcher extension (src/src/shared/RuleEngine.ts,                        *)
(* src/src/shared/TrafficModificationEngine.ts).                           *)
(*                                                                         *)
(* Strings that the code inspects character by character (URLs, URL        *)
(* patterns) are sequences of one-character strings.  A JavaScript object  *)
(* whose keys may be missing (Partial<Rule>, an imported rule) is a record *)
(* with every field plus "has", the set of keys that are present; a field  *)
(* that is not in "has" holds a fixed filler and is never read.            *)
(***************************************************************************)
EXTENDS Integers, Sequences, FiniteSets, TLC

\* ------------------------------------------------------------------ bounds
MaxRules == 3     \* longest rule collection the model stores
MaxGen == 1       \* number of ids generateId() hands out
MaxHeaders == 3   \* longest header list modifyRequestHeaders returns
MaxCalls == 2     \* modifyRequestHeaders calls made on one request's headers
TickMs == 2500    \* milliseconds that pass in one step of a timer's clock
MaxOps == 2       \* storage manager and request logger calls in one behaviour
Today == 4        \* Date.now(), in days

\* ----------------------------------------------------------- small helpers
Range(s) == {s[i] : i \in 1..Len(s)}

RECURSIVE SeqFilter(_, _)
\* Array.prototype.filter with the predicate given as the set of kept values
SeqFilter(s, keep) ==
    IF s = <<>> THEN <<>>
    ELSE IF Head(s) \in keep THEN <<Head(s)>> \o SeqFilter(Tail(s), keep)
    ELSE SeqFilter(Tail(s), keep)

\* String.prototype.toLowerCase, character by character
LowerChar(c) ==
    CASE c = "G" -> "g" [] c = "E" -> "e" [] c = "T" -> "t" [] c = "P" -> "p"
      [] c = "O" -> "o" [] c = "S" -> "s" [] c = "X" -> "x" [] c = "B" -> "b"
      [] OTHER -> c

toLowerCase(s) == [i \in 1..Len(s) |-> LowerChar(s[i])]

\* String.prototype.includes
includes(s, sub) ==
    \E i \in 0..(Len(s) - Len(sub)) : SubSeq(s, i + 1, i + Len(sub)) = sub

RECURSIVE TrimLeft(_)
TrimLeft(s) == IF s # <<>> /\ Head(s) = " " THEN TrimLeft(Tail(s)) ELSE s

RECURSIVE TrimRight(_)
TrimRight(s) ==
    IF s # <<>> /\ s[Len(s)] = " " THEN TrimRight(SubSeq(s, 1, Len(s) - 1)) ELSE s

\* String.prototype.trim on a character sequence
trim(s) == TrimRight(TrimLeft(s))

\* ------------------------------------------------- regular expressions
\* The fragment of JavaScript's RegExp that the patterns of the model use:
\* literal characters, "." (any character), the postfix quantifiers "*" and
\* "?", "\" escapes, the anchors "^" and "$", and "(" / ")" / "[", which in
\* this fragment are always unbalanced and make the pattern a SyntaxError.
Atom(k, c, q) == [k |-> k, c |-> c, q |-> q]

RegexError == <<Atom("error", "", "one")>>

RECURSIVE RegExpParse(_)
\* new RegExp(p): the atoms of p, or RegexError when p does not compile
RegExpParse(p) ==
    IF p = <<>> THEN <<>>
    ELSE
      LET c == Head(p)
          esc == c = "\\"
          bad == \/ c \in {"(", ")", "[", "*", "?"}
                 \/ (esc /\ Len(p) = 1)
          n == IF esc THEN 2 ELSE 1
          k == CASE esc -> "lit"
                 [] c = "." -> "any"
                 [] c = "^" -> "bol"
                 [] c = "$" -> "eol"
                 [] OTHER -> "lit"
          ch == IF esc THEN p[2] ELSE c
          quantified == Len(p) > n /\ p[n + 1] \in {"*", "?"}
          q == IF ~quantified THEN "one" ELSE IF p[n + 1] = "*" THEN "star" ELSE "opt"
          \* a "?" after a quantifier makes it lazy: same language
          lazy == quantified /\ Len(p) > n + 1 /\ p[n + 2] = "?"
          used == IF lazy THEN n + 2 ELSE IF quantified THEN n + 1 ELSE n
          rest == IF bad THEN RegexError ELSE RegExpParse(SubSeq(p, used + 1, Len(p)))
      IN  IF bad \/ rest = RegexError \/ (quantified /\ k \in {"bol", "eol"})
          THEN RegexError
          ELSE <<Atom(k, ch, q)>> \o rest

AtomAccepts(a, ch) == a.k = "any" \/ (a.k = "lit" /\ a.c = ch)

RECURSIVE MatchHere(_, _, _)
\* whether the atoms re match a prefix of text; atStart: text is the whole input
MatchHere(re, text, atStart) ==
    IF re = <<>> THEN TRUE
    ELSE
      LET a == Head(re) IN
      CASE a.k = "bol" -> atStart /\ MatchHere(Tail(re), text, atStart)
        [] a.k = "eol" -> text = <<>> /\ MatchHere(Tail(re), text, FALSE)
        [] a.q = "star" ->
             \E n \in 0..Len(text) :
                /\ \A i \in 1..n : AtomAccepts(a, text[i])
                /\ MatchHere(Tail(re), SubSeq(text, n + 1, Len(text)), atStart /\ n = 0)
        [] a.q = "opt" ->
             \/ MatchHere(Tail(re), text, atStart)
             \/ /\ text # <<>>
                /\ AtomAccepts(a, Head(text))
                /\ MatchHere(Tail(re), Tail(text), FALSE)
        [] OTHER ->
             /\ text # <<>>
             /\ AtomAccepts(a, Head(text))
             /\ MatchHere(Tail(re), Tail(text), FALSE)

\* RegExp.prototype.test: an unanchored search
RegExpTest(re, text) ==
    \E i \in 0..Len(text) : MatchHere(re, SubSeq(text, i + 1, Len(text)), i = 0)

\* the characters matchesPattern escapes in a glob: /[.+^${}()|[\]\\]/
GlobSpecial == {".", "+", "^", "$", "{", "}", "(", ")", "|", "[", "]", "\\"}

RECURSIVE GlobToRegex(_)
\* the three replace() calls of matchesPattern, character by character
GlobToRegex(p) ==
    IF p = <<>> THEN <<>>
    ELSE (CASE Head(p) \in GlobSpecial -> <<"\\", Head(p)>>
            [] Head(p) = "*" -> <<".", "*">>
            [] Head(p) = "?" -> <<".">>
            [] OTHER -> <<Head(p)>>) \o GlobToRegex(Tail(p))

\* matchesPattern(url, pattern, matchType); every matchType but "regex" is a glob
matchesPattern(url, pattern, matchType) ==
    IF matchType = "regex"
    THEN LET re == RegExpParse(pattern) IN re # RegexError /\ RegExpTest(re, url)
    ELSE LET re == RegExpParse(<<"^">> \o GlobToRegex(pattern) \o <<"$">>)
         IN  re # RegexError /\ RegExpTest(re, url)

\* ------------------------------------------------------------ data model
\* RuleAction (types.ts): "has" holds the keys of config that are present
Action(type, has, headers, redirectUrl, status, delayMs) ==
    [type |-> type, has |-> has, headers |-> headers, redirectUrl |-> redirectUrl,
     status |-> status, delayMs |-> delayMs]

HeaderOp(operation, name, hasValue, value) ==
    [operation |-> operation, name |-> name, hasValue |-> hasValue, value |-> value]

Header(name, value) == [name |-> name, value |-> value]

BlockAction == Action("block", {}, <<>>, "", 0, 0)
HeadersAction(ops) == Action("modifyHeaders", {"headers"}, ops, "", 0, 0)
RedirectAction(u) == Action("redirect", {"redirectUrl"}, <<>>, u, 0, 0)
MockAction(st) ==
    Action("mock", {"mockResponse", "mockResponse.headers", "mockResponse.body"},
           <<>>, "", st, 0)
DelayAction(ms) == Action("delay", {"delayMs"}, <<>>, "", 0, ms)

\* RuleCondition (types.ts)
Condition(type, operator, value) == [type |-> type, operator |-> operator, value |-> value]

\* a number: n, or n + 1/2 when frac
Num(n) == [n |-> n, frac |-> FALSE]
Half(n) == [n |-> n, frac |-> TRUE]

RuleFields ==
    {"id", "name", "enabled", "urlPattern", "matchType", "actions", "conditions",
     "priority", "createdAt", "updatedAt"}

\* the filler of every field, for the keys that are not in "has"
EmptyRule ==
    [has |-> {}, id |-> "", name |-> <<>>, enabled |-> FALSE, urlPattern |-> <<>>,
     matchType |-> "", actions |-> <<>>, conditions |-> <<>>, priority |-> Num(0),
     createdAt |-> 0, updatedAt |-> 0]

\* the strings new URL() accepts, among those the model uses
ValidUrls == {"https://r.example/"}

\* Number.isInteger
IsInteger(x) == ~x.frac

\* x < 0 for a number of the model
IsNegative(x) == x.n < 0

\* ------------------------------------------------------------ validation
\* validateRuleAction (validation.ts): the list of errors is abstracted to
\* whether it is empty
validateRuleAction(a) ==
    /\ a.type \in {"modifyHeaders", "redirect", "block", "mock", "delay"}
    /\ CASE a.type = "modifyHeaders" ->
              /\ "headers" \in a.has
              /\ a.headers # <<>>
              /\ \A i \in 1..Len(a.headers) :
                    LET h == a.headers[i] IN
                    /\ trim(h.name) # <<>>
                    /\ h.operation \in {"add", "remove", "set"}
                    /\ (h.operation \in {"add", "set"} => (h.hasValue /\ h.value # <<>>))
         [] a.type = "redirect" ->
              /\ "redirectUrl" \in a.has
              /\ a.redirectUrl # ""
              /\ a.redirectUrl \in ValidUrls
         [] a.type = "mock" ->
              /\ "mockResponse" \in a.has
              /\ a.status # 0 /\ a.status >= 100 /\ a.status <= 599
              /\ "mockResponse.headers" \in a.has
              /\ "mockResponse.body" \in a.has
         [] a.type = "delay" ->
              /\ "delayMs" \in a.has
              /\ a.delayMs # 0 /\ a.delayMs >= 0
              /\ a.delayMs <= 30000
         [] OTHER -> TRUE

\* validateRuleCondition (validation.ts)
validateRuleCondition(c) ==
    /\ c.type \in {"method", "resourceType", "header"}
    /\ c.operator \in {"equals", "contains", "regex"}
    /\ trim(c.value) # <<>>
    /\ (c.operator = "regex" => RegExpParse(c.value) # RegexError)

\* a validateRule that lets a rule without actions through
validateRuleAlt(rule) ==
    /\ "name" \in rule.has /\ trim(rule.name) # <<>>
    /\ "urlPattern" \in rule.has /\ trim(rule.urlPattern) # <<>>

\* validateRule(rule).valid (validation.ts)
validateRule(rule) ==
    /\ "name" \in rule.has /\ trim(rule.name) # <<>>
    /\ "urlPattern" \in rule.has /\ trim(rule.urlPattern) # <<>>
    /\ (("matchType" \in rule.has /\ rule.matchType # "")
            => rule.matchType \in {"glob", "regex"})
    /\ (("matchType" \in rule.has /\ rule.matchType = "regex")
            => RegExpParse(IF "urlPattern" \in rule.has THEN rule.urlPattern ELSE <<>>)
                   # RegexError)
    /\ "actions" \in rule.has /\ rule.actions # <<>>
    /\ \A i \in 1..Len(rule.actions) : validateRuleAction(rule.actions[i])
    /\ ("priority" \in rule.has
            => ~(IsNegative(rule.priority) \/ ~IsInteger(rule.priority)))
    /\ ("conditions" \in rule.has
            => \A i \in 1..Len(rule.conditions) : validateRuleCondition(rule.conditions[i]))

\* ------------------------------------------------------------ rule engine
IsTruthyId(rule) == "id" \in rule.has /\ rule.id # ""

\* Array.prototype.findIndex(r => r.id === id), 1-based; 0 when there is none
findIndex(rs, id) ==
    IF \E i \in 1..Len(rs) : "id" \in rs[i].has /\ rs[i].id = id
    THEN CHOOSE i \in 1..Len(rs) :
            /\ "id" \in rs[i].has /\ rs[i].id = id
            /\ \A j \in 1..(i - 1) : ~("id" \in rs[j].has /\ rs[j].id = id)
    ELSE 0

\* { ...rules[index], ...rule, updatedAt: Date.now() } (saveRule, update branch)
MergeRule(old, rule, t) ==
    [f \in RuleFields \cup {"has"} |->
        CASE f = "has" -> old.has \cup rule.has \cup {"updatedAt"}
          [] f = "updatedAt" -> t
          [] OTHER -> IF f \in rule.has THEN rule[f] ELSE old[f]]

\* the object literal of saveRule's create branch, as JSON stores it (a key
\* whose value is undefined is not written)
NewRule(rule, id, t) ==
    [has |-> (RuleFields \ {"conditions"}) \cup (rule.has \cap {"conditions"}),
     id |-> id,
     name |-> rule.name,
     enabled |-> IF "enabled" \in rule.has THEN rule.enabled ELSE TRUE,
     urlPattern |-> rule.urlPattern,
     matchType |-> IF "matchType" \in rule.has /\ rule.matchType # ""
                   THEN rule.matchType ELSE "glob",
     actions |-> rule.actions,
     conditions |-> IF "conditions" \in rule.has THEN rule.conditions ELSE <<>>,
     priority |-> IF "priority" \in rule.has THEN rule.priority ELSE Num(0),
     createdAt |-> t,
     updatedAt |-> t]

\* what a call does to the store: status of the call, whether it reached
\* chrome.storage.local.set / remove, the collection it leaves, the id or
\* count it returns
Outcome(status, wrote, rs, id, count) ==
    [status |-> status, wrote |-> wrote, rules |-> rs, id |-> id, count |-> count]

\* getRules(): a failed read is logged and answered with []
getRules(stored, readOk) == IF readOk THEN stored ELSE <<>>

\* saveRule(rule), on the collection rs that getRules() returned; gen is the
\* id generateId() would return, t is Date.now(), writeOk whether
\* storageManager.save succeeds; stored is the collection left when it fails
saveRule(stored, rs, rule, gen, t, writeOk) ==
    IF ~validateRule(rule) THEN Outcome("error", FALSE, stored, "", 0)
    ELSE
      LET index == IF IsTruthyId(rule) THEN findIndex(rs, rule.id) ELSE 0
          id == IF IsTruthyId(rule) THEN rule.id ELSE gen
          new == IF index # 0
                 THEN [rs EXCEPT ![index] = MergeRule(rs[index], rule, t)]
                 ELSE Append(rs, NewRule(rule, id, t))
      IN  IF writeOk THEN Outcome("ok", TRUE, new, id, 0)
          ELSE Outcome("error", TRUE, stored, "", 0)

\* deleteRule(ruleId)
deleteRule(stored, rs, ruleId, writeOk) ==
    LET filteredRules ==
            SeqFilter(rs, {r \in Range(rs) : ~("id" \in r.has /\ r.id = ruleId)})
    IN  IF Len(filteredRules) = Len(rs) THEN Outcome("ok", FALSE, stored, ruleId, 0)
        ELSE IF writeOk THEN Outcome("ok", TRUE, filteredRules, ruleId, 0)
        ELSE Outcome("error", TRUE, stored, ruleId, 0)

\* a toggleRule that answers an unknown id without an error and leaves
\* updatedAt alone
toggleRuleAlt(stored, rs, ruleId, enabled, t, writeOk) ==
    LET ruleIndex == findIndex(rs, ruleId) IN
    IF ruleIndex = 0 THEN Outcome("ok", FALSE, stored, ruleId, 0)
    ELSE IF writeOk
    THEN Outcome("ok", TRUE,
                 [rs EXCEPT ![ruleIndex] = [@ EXCEPT !.enabled = enabled,
                                                     !.has = @ \cup {"enabled"}]],
                 ruleId, 0)
    ELSE Outcome("error", TRUE, stored, ruleId, 0)

\* toggleRule(ruleId, enabled)
toggleRule(stored, rs, ruleId, enabled, t, writeOk) ==
    LET ruleIndex == findIndex(rs, ruleId) IN
    IF ruleIndex = 0 THEN Outcome("error", FALSE, stored, ruleId, 0)
    ELSE IF writeOk
    THEN Outcome("ok", TRUE,
                 [rs EXCEPT ![ruleIndex] =
                     [@ EXCEPT !.enabled = enabled, !.updatedAt = t,
                               !.has = @ \cup {"enabled", "updatedAt"}]],
                 ruleId, 0)
    ELSE Outcome("error", TRUE, stored, ruleId, 0)

\* an import that stores the batch without validating it
importRulesAlt(stored, existing, parsed, batch, replace, writeOk) ==
    Outcome("ok", TRUE, (IF replace THEN <<>> ELSE existing) \o batch, "", Len(batch))

\* importRules(rulesJson, replace): parsed is whether JSON.parse returned an
\* array, batch that array, existing what getRules() returns in merge mode
importRules(stored, existing, parsed, batch, replace, writeOk) ==
    IF ~parsed \/ \E i \in 1..Len(batch) : ~validateRule(batch[i])
    THEN Outcome("error", FALSE, stored, "", 0)
    ELSE IF ~writeOk THEN Outcome("error", TRUE, stored, "", 0)
    ELSE Outcome("ok", TRUE, (IF replace THEN <<>> ELSE existing) \o batch, "",
                 Len(batch))

\* evaluateCondition(actual, operator, expected)
evaluateCondition(actual, operator, expected) ==
    CASE operator = "equals" -> toLowerCase(actual) = toLowerCase(expected)
      [] operator = "contains" -> includes(toLowerCase(actual), toLowerCase(expected))
      [] operator = "regex" ->
            \* new RegExp(expected, 'i').test(actual)
            LET re == RegExpParse(toLowerCase(expected))
            IN  re # RegexError /\ RegExpTest(re, toLowerCase(actual))
      [] OTHER -> FALSE

\* evaluateConditions(conditions, requestDetails): a header condition is
\* not evaluated and passes
evaluateConditions(conditions, req) ==
    \A i \in 1..Len(conditions) :
        LET c == conditions[i] IN
        CASE c.type = "method" -> evaluateCondition(req.method, c.operator, c.value)
          [] c.type = "resourceType" -> evaluateCondition(req.type, c.operator, c.value)
          [] OTHER -> TRUE

\* a filter that forgets the enabled flag and the conditions
RuleMatchesAlt(r, req) ==
    matchesPattern(req.url, r.urlPattern, IF "matchType" \in r.has THEN r.matchType ELSE "")

\* the filter callbacks of evaluateRequest: whether rule r survives both
RuleMatches(r, req) ==
    /\ "enabled" \in r.has /\ r.enabled
    /\ matchesPattern(req.url, r.urlPattern, IF "matchType" \in r.has THEN r.matchType ELSE "")
    /\ (("conditions" \in r.has /\ r.conditions # <<>>)
            => evaluateConditions(r.conditions, req))

\* the comparator (a, b) => b.priority - a.priority; NaN (a missing
\* priority) is read by Array.prototype.sort as +0
Compare(a, b) ==
    IF "priority" \in a.has /\ "priority" \in b.has
    THEN b.priority.n - a.priority.n
    ELSE 0

\* a consistent comparator in the sense of ECMAScript's Array.prototype.sort:
\* elements that compare equal to a common element compare equal
ConsistentComparator(rs) ==
    \A i, j, k \in 1..Len(rs) :
        (Compare(rs[i], rs[j]) = 0 /\ Compare(rs[j], rs[k]) = 0)
            => Compare(rs[i], rs[k]) = 0

RECURSIVE InsertSorted(_, _)
\* x put into the sorted sequence s after every element that does not sort
\* after it (a stable insertion)
InsertSorted(s, x) ==
    IF s = <<>> THEN <<x>>
    ELSE IF Compare(Head(s), x) <= 0 THEN <<Head(s)>> \o InsertSorted(Tail(s), x)
    ELSE <<x>> \o s

RECURSIVE StableSort(_)
StableSort(rs) ==
    IF rs = <<>> THEN <<>>
    ELSE InsertSorted(StableSort(SubSeq(rs, 1, Len(rs) - 1)), rs[Len(rs)])

Orderings(rs) ==
    {[i \in 1..Len(rs) |-> rs[f[i]]] :
        f \in {g \in [1..Len(rs) -> 1..Len(rs)] : \A i, j \in 1..Len(rs) : g[i] = g[j] => i = j}}

\* sortRulesByPriority(rules): [...rules].sort(compare), the possible
\* results.  The sort is stable; with an inconsistent comparator ECMAScript
\* leaves the order to the implementation
sortRulesByPriority(rs) ==
    IF ConsistentComparator(rs) THEN {StableSort(rs)} ELSE Orderings(rs)

\* evaluateRequest(requestDetails), the possible results
evaluateRequest(rs, req) ==
    sortRulesByPriority(SeqFilter(rs, {r \in Range(rs) : RuleMatches(r, req)}))

\* getRuleById(id): the rule found, or EmptyRule for null
getRuleById(rs, id) ==
    IF findIndex(rs, id) = 0 THEN EmptyRule ELSE rs[findIndex(rs, id)]
\* ------------------------------------------------------- header operations
\* a set operation that appends without removing the headers of that name
applyHeaderModAlt(modifiedHeaders, headerMod) ==
    IF headerMod.operation \in {"add", "set"}
    THEN Append(modifiedHeaders,
                Header(headerMod.name,
                       IF headerMod.hasValue THEN headerMod.value ELSE <<>>))
    ELSE SeqFilter(modifiedHeaders,
                   {h \in Range(modifiedHeaders) :
                        toLowerCase(h.name) # toLowerCase(headerMod.name)})

\* the switch on headerMod.operation inside modifyRequestHeaders: one
\* operation applied to the headers accumulated so far
applyHeaderMod(modifiedHeaders, headerMod) ==
    LET others == SeqFilter(modifiedHeaders,
                            {h \in Range(modifiedHeaders) :
                                 toLowerCase(h.name) # toLowerCase(headerMod.name)})
        \* { name: headerMod.name, value: headerMod.value || '' }
        pushed == Header(headerMod.name,
                         IF headerMod.hasValue THEN headerMod.value ELSE <<>>)
    IN  CASE headerMod.operation = "add" -> Append(modifiedHeaders, pushed)
          [] headerMod.operation = "set" -> Append(others, pushed)
          [] headerMod.operation = "remove" -> others
          [] OTHER -> modifiedHeaders

RECURSIVE applyHeaderMods(_, _)
\* the loop over action.config.headers
applyHeaderMods(modifiedHeaders, mods) ==
    IF mods = <<>> THEN modifiedHeaders
    ELSE applyHeaderMods(applyHeaderMod(modifiedHeaders, Head(mods)), Tail(mods))

\* a modifyRequestHeaders that applies every action to the headers it was
\* called with, and returns what the last action made of them
modifyRequestHeadersAlt(headers, actions) ==
    IF actions = <<>> THEN headers
    ELSE LET action == actions[Len(actions)]
         IN  IF action.type = "modifyHeaders" /\ "headers" \in action.has
             THEN applyHeaderMods(headers, action.headers)
             ELSE headers

RECURSIVE modifyRequestHeaders(_, _)
\* modifyRequestHeaders(headers, actions): the loop over the actions
modifyRequestHeaders(headers, actions) ==
    IF actions = <<>> THEN headers
    ELSE LET action == Head(actions)
         IN  modifyRequestHeaders(
                 IF action.type = "modifyHeaders" /\ "headers" \in action.has
                 THEN applyHeaderMods(headers, action.headers)
                 ELSE headers,
                 Tail(actions))


\* ----------------------------------------------------------------- inputs
Name1 == <<"n">>
GlobAll == <<"*">>
GlobA == <<"a", "?">>
RegexB == <<"b">>
MethodGet == <<"G", "E", "T">>
MethodPost == <<"P", "O", "S", "T">>

\* the requests evaluateRequest is called with: url, method, resource type
Requests ==
    {[url |-> <<"a", "b">>, method |-> MethodGet, type |-> <<"x">>],
     [url |-> <<"b">>, method |-> MethodGet, type |-> <<"x">>],
     [url |-> <<"b">>, method |-> MethodPost, type |-> <<"x">>]}

SetHeaderAction == HeadersAction(<<HeaderOp("set", <<"X">>, TRUE, <<"v">>)>>)

\* a Partial<Rule> with the keys name, urlPattern, actions and those of extra
Partial(extra, id, pattern, matchType, priority, enabled, actions, conditions) ==
    [has |-> {"name", "urlPattern", "actions"} \cup extra,
     id |-> IF "id" \in extra THEN id ELSE "",
     name |-> Name1,
     enabled |-> IF "enabled" \in extra THEN enabled ELSE FALSE,
     urlPattern |-> pattern,
     matchType |-> IF "matchType" \in extra THEN matchType ELSE "",
     actions |-> actions,
     conditions |-> IF "conditions" \in extra THEN conditions ELSE <<>>,
     priority |-> IF "priority" \in extra THEN priority ELSE Num(0),
     createdAt |-> 0,
     updatedAt |-> 0]

GetOnly == <<Condition("method", "equals", <<"g", "e", "t">>)>>

\* valid arguments of saveRule: a rule to create under a generated id, and
\* two versions of rule "a" (the second disabled, with another pattern,
\* priority and action)
ValidPartials ==
    {Partial({"matchType", "priority"}, "", GlobAll, "glob", Num(1), FALSE,
             <<BlockAction>>, <<>>),
     Partial({"id", "matchType", "conditions"}, "a", RegexB, "regex", Num(0), FALSE,
             <<BlockAction>>, GetOnly),
     Partial({"id", "matchType", "priority", "enabled"}, "a", GlobA, "glob", Num(2),
             FALSE, <<SetHeaderAction>>, <<>>)}

BaseValid ==
    Partial({"id", "matchType", "priority"}, "a", GlobAll, "glob", Num(2), FALSE,
            <<BlockAction>>, <<>>)

\* arguments of saveRule that violate one validation constraint each
InvalidPartials ==
    {[BaseValid EXCEPT !.name = <<>>],
     [BaseValid EXCEPT !.name = <<" ">>],
     [BaseValid EXCEPT !.has = @ \ {"urlPattern"}, !.urlPattern = <<>>],
     [BaseValid EXCEPT !.urlPattern = <<"(">>, !.matchType = "regex"],
     [BaseValid EXCEPT !.actions = <<>>],
     [BaseValid EXCEPT !.actions = <<DelayAction(0)>>],
     [BaseValid EXCEPT !.actions = <<BlockAction, MockAction(99)>>],
     [BaseValid EXCEPT !.priority = Num(-1)],
     [BaseValid EXCEPT !.priority = Half(1)]}

SavePartials == ValidPartials \cup InvalidPartials

\* a rule as exportRules() writes it and a JSON file may carry it
Imported(id, priority, hasPriority) ==
    [has |-> (RuleFields \ {"conditions"}) \ (IF hasPriority THEN {} ELSE {"priority"}),
     id |-> id, name |-> Name1, enabled |-> TRUE, urlPattern |-> GlobAll,
     matchType |-> "glob", actions |-> <<BlockAction>>, conditions |-> <<>>,
     priority |-> IF hasPriority THEN priority ELSE Num(0),
     createdAt |-> 0, updatedAt |-> 0]

\* the arrays importRules is given: an export holding rule "a"; a file of
\* three rules, one written without a priority
ValidBatches ==
    {<<Imported("a", Num(1), TRUE)>>,
     <<Imported("a", Num(1), TRUE), Imported("b", Num(0), FALSE),
       Imported("c", Num(5), TRUE)>>}

\* a file whose second rule has no action
InvalidBatches ==
    {<<Imported("b", Num(1), TRUE), [Imported("c", Num(1), TRUE) EXCEPT !.actions = <<>>]>>}

ImportBatches == ValidBatches \cup InvalidBatches

\* the ids toggleRule, deleteRule and getRuleById are called with
RuleIds == {"a", "g1"}

\* the ids generateId() returns, in order (time and random based: never reused)
GenIds == <<"g1", "g2", "g3", "g4">>

\* the header lists a request arrives with (chrome.webRequest.HttpHeader[])
RequestHeaders ==
    {<<>>,
     <<Header(<<"X">>, <<"0">>)>>,
     <<Header(<<"x">>, <<"0">>), Header(<<"Y">>, <<"0">>)>>,
     <<Header(<<"X">>, <<"0">>), Header(<<"x">>, <<"1">>)>>}

\* the header operations of the model's rules; the last one has no value
HeaderOps ==
    {HeaderOp("add", <<"X">>, TRUE, <<"1">>),
     HeaderOp("set", <<"X">>, TRUE, <<"1">>),
     HeaderOp("set", <<"x">>, TRUE, <<"2">>),
     HeaderOp("set", <<"Y">>, FALSE, <<>>),
     HeaderOp("remove", <<"x">>, FALSE, <<>>)}

\* the actions modifyRequestHeaders is handed: modifyHeaders actions with one
\* operation or with the same set operation twice, a modifyHeaders action
\* whose config has no headers, and an action of another type
HeaderActions ==
    {HeadersAction(<<op>>) : op \in HeaderOps}
        \cup {HeadersAction(<<HeaderOp("set", <<"X">>, TRUE, <<"1">>),
                              HeaderOp("set", <<"X">>, TRUE, <<"1">>)>>),
              Action("modifyHeaders", {}, <<>>, "", 0, 0),
              BlockAction}

\* the action lists: up to two actions
ActionLists ==
    {<<a>> : a \in HeaderActions} \cup {<<a, b>> : a \in HeaderActions, b \in HeaderActions}

\* ------------------------------------------------------------------ state
VARIABLES
    rules,      \* the array stored under RULES_KEY ('modification_rules')
    rulesKey,   \* whether chrome.storage.local holds RULES_KEY
    now,        \* Date.now()
    nextGen,    \* how many ids generateId() has returned
    last,       \* the call that completed last, with what it returned
    pending,    \* per caller: the mutating call it has in flight, if any
    hdr,        \* a modifyRequestHeaders call: arguments and result
    handler,    \* RequestInterceptor: the handler run that completed last
    race,       \* applyModificationsWithTimeout: the call's promise, fn and timer
    store,      \* chrome.storage.local as the StorageManager and the logger use it
    ret,        \* the StorageManager or RequestLogger call that completed last
    dynamicRules,    \* chrome.declarativeNetRequest: the dynamic rules registered
    activeMockRules, \* MockResponseManager: rule id -> the declarative id it holds
    exported,   \* the text the last exportRules() returned to its caller
    pendingRequests  \* RequestInterceptor: request id -> the id and start time kept

vars == <<rules, rulesKey, now, nextGen, last, pending, hdr, handler, race, store, ret,
          dynamicRules, activeMockRules, exported, pendingRequests>>

\* the state of the components a specification leaves alone
\* the declarativeNetRequest side, the caller's exported text and the
\* interceptor's pending requests
mockVars == <<dynamicRules, activeMockRules, exported, pendingRequests>>

idleVars == <<handler, race, store, ret, mockVars>>

\* no dynamic rule registered, nothing exported, no request pending
MockInit ==
    /\ dynamicRules = {}
    /\ activeMockRules = <<>>
    /\ exported = <<>>
    /\ pendingRequests = <<>>

\* those components before their first call
IdleInit ==
    /\ handler = [event |-> "none"]
    /\ race = [phase |-> "none"]
    /\ store = <<>>
    /\ ret = [op |-> "none"]
    /\ MockInit

\* the callers whose mutating calls may overlap
Callers == {1, 2}

\* a caller's call in flight: the arguments, whether its storage read
\* succeeded and the collection getRules() returned to it, whether another
\* call was in flight at some moment of this call; and, between calls, what
\* the caller's last completed call reported (retId: the id saveRule returned)
InFlight(op, arg, id, flag, readOk, snap, overlapped, status, retId) ==
    [op |-> op, arg |-> arg, id |-> id, flag |-> flag, readOk |-> readOk,
     snap |-> snap, overlapped |-> overlapped, status |-> status, retId |-> retId]

Idle(readOk, overlapped, status, retId) ==
    InFlight("idle", EmptyRule, "", FALSE, readOk, <<>>, overlapped, status, retId)

\* a modifyRequestHeaders call: the headers and the actions it was given and
\* what it returned; calls counts the calls made on this request's headers
HeaderCall(headers, actions, out, applied, calls) ==
    [headers |-> headers, actions |-> actions, out |-> out, applied |-> applied,
     calls |-> calls]

NoHeaders == HeaderCall(<<>>, <<>>, <<>>, FALSE, 0)

NoRequest == [url |-> <<>>, method |-> <<>>, type |-> <<>>]

\* the record of a completed call; flag is toggleRule's enabled, importRules'
\* replace, and for saveRule whether it updated an existing rule
Call(op, status, wrote, readOk, id, arg, flag, req, result) ==
    [op |-> op, status |-> status, wrote |-> wrote, readOk |-> readOk, id |-> id,
     arg |-> arg, flag |-> flag, req |-> req, result |-> result]

Init ==
    /\ rules = <<>>
    /\ rulesKey = FALSE
    /\ now = 0
    /\ nextGen = 0
    /\ last = Call("none", "ok", FALSE, TRUE, "", EmptyRule, FALSE, NoRequest, <<>>)
    /\ pending = [c \in Callers |-> Idle(TRUE, FALSE, "none", "")]
    /\ hdr = NoHeaders
    /\ IdleInit

\* In the actions below readOk and writeOk say whether the call's storage
\* read and write succeed.  A flag the call never consults, or whose value
\* cannot change the outcome, is held at TRUE, so that one call is one step.

\* a whole saveRule(p) call
SaveRule ==
    \E p \in SavePartials, readOk \in BOOLEAN, writeOk \in BOOLEAN :
        LET generates == validateRule(p) /\ ~IsTruthyId(p)
            \* whether the call took the update branch
            updates == /\ validateRule(p) /\ IsTruthyId(p)
                       /\ findIndex(getRules(rules, readOk), p.id) # 0
            out == saveRule(rules, getRules(rules, readOk), p,
                            GenIds[nextGen + 1], now, writeOk)
        IN  /\ generates => nextGen < MaxGen
            /\ ~validateRule(p) => (readOk /\ writeOk)
            /\ readOk \/ writeOk
            /\ Len(out.rules) <= MaxRules
            /\ rules' = out.rules
            /\ rulesKey' = (rulesKey \/ (out.status = "ok" /\ out.wrote))
            /\ nextGen' = IF generates THEN nextGen + 1 ELSE nextGen
            /\ last' = Call("saveRule", out.status, out.wrote, readOk, out.id, p,
                            updates, NoRequest, <<>>)
            /\ UNCHANGED <<now, pending, hdr, idleVars>>

\* a whole deleteRule(id) call
DeleteRule ==
    \E id \in RuleIds, readOk \in BOOLEAN, writeOk \in BOOLEAN :
        LET out == deleteRule(rules, getRules(rules, readOk), id, writeOk)
        IN  /\ ~out.wrote => writeOk
            /\ readOk \/ writeOk
            /\ rules' = out.rules
            /\ rulesKey' = (rulesKey \/ (out.status = "ok" /\ out.wrote))
            /\ last' = Call("deleteRule", out.status, out.wrote, readOk, id, EmptyRule,
                            FALSE, NoRequest, <<>>)
            /\ UNCHANGED <<now, nextGen, pending, hdr, idleVars>>

\* a whole toggleRule(id, enabled) call
ToggleRule ==
    \E id \in RuleIds, enabled \in BOOLEAN, readOk \in BOOLEAN, writeOk \in BOOLEAN :
        LET out == toggleRule(rules, getRules(rules, readOk), id, enabled, now, writeOk)
        IN  /\ ~out.wrote => writeOk
            /\ readOk \/ writeOk
            /\ rules' = out.rules
            /\ rulesKey' = (rulesKey \/ (out.status = "ok" /\ out.wrote))
            /\ last' = Call("toggleRule", out.status, out.wrote, readOk, id, EmptyRule,
                            enabled, NoRequest, <<>>)
            /\ UNCHANGED <<now, nextGen, pending, hdr, idleVars>>

\* a whole clearAllRules() call: storageManager.remove(RULES_KEY)
ClearAllRules ==
    \E removeOk \in BOOLEAN :
        /\ rules' = IF removeOk THEN <<>> ELSE rules
        /\ rulesKey' = (rulesKey /\ ~removeOk)
        /\ last' = Call("clearAllRules", IF removeOk THEN "ok" ELSE "error", TRUE, TRUE,
                        "", EmptyRule, FALSE, NoRequest, <<>>)
        /\ UNCHANGED <<now, nextGen, pending, hdr, idleVars>>

\* a whole importRules(json, replace) call
ImportRules ==
    \E parsed \in BOOLEAN, batch \in ImportBatches, replace \in BOOLEAN,
       readOk \in BOOLEAN, writeOk \in BOOLEAN :
        LET out == importRules(rules, getRules(rules, readOk), parsed,
                               IF parsed THEN batch ELSE <<>>, replace, writeOk)
        IN  /\ parsed \/ batch = CHOOSE b \in ImportBatches : TRUE
            /\ (replace \/ ~out.wrote) => readOk
            /\ ~out.wrote => writeOk
            /\ Len(out.rules) <= MaxRules
            /\ rules' = out.rules
            /\ rulesKey' = (rulesKey \/ (out.status = "ok" /\ out.wrote))
            /\ last' = Call("importRules", out.status, out.wrote, readOk, "", EmptyRule,
                            replace, NoRequest, IF parsed THEN batch ELSE <<>>)
            /\ UNCHANGED <<now, nextGen, pending, hdr, idleVars>>

\* an evaluateRequest that saves the sorted matches back as the collection
EvaluateRequestAlt ==
    \E req \in Requests, readOk \in BOOLEAN :
        \E result \in evaluateRequest(getRules(rules, readOk), req) :
            /\ rules' = result
            /\ last' = Call("evaluateRequest", "ok", FALSE, readOk, "", EmptyRule, FALSE,
                            req, result)
            /\ UNCHANGED <<rulesKey, now, nextGen, pending, hdr, idleVars>>

\* a whole evaluateRequest(req) call
EvaluateRequest ==
    \E req \in Requests, readOk \in BOOLEAN :
        \E result \in evaluateRequest(getRules(rules, readOk), req) :
            /\ last' = Call("evaluateRequest", "ok", FALSE, readOk, "", EmptyRule, FALSE,
                            req, result)
            /\ UNCHANGED <<rules, rulesKey, now, nextGen, pending, hdr, idleVars>>

\* a whole getRuleById(id) call; result holds the rule found, if any
GetRuleById ==
    \E id \in RuleIds, readOk \in BOOLEAN :
        LET found == getRuleById(getRules(rules, readOk), id)
        IN  /\ last' = Call("getRuleById", "ok", FALSE, readOk, id, EmptyRule, FALSE,
                            NoRequest, IF found = EmptyRule THEN <<>> ELSE <<found>>)
            /\ UNCHANGED <<rules, rulesKey, now, nextGen, pending, hdr, idleVars>>

Next ==
    \/ SaveRule
    \/ DeleteRule
    \/ ToggleRule
    \/ ClearAllRules
    \/ ImportRules
    \/ EvaluateRequest
    \/ GetRuleById

Spec == Init /\ [][Next]_vars

\* ------------------------------------------------------- claims, Rule Engine
HasId(r, id) == "id" \in r.has /\ r.id = id

\* C1: the list evaluateRequest returns is sorted by non-increasing
\* priority: of two returned rules that carry a priority, the earlier one's
\* is not the smaller.
C1_SortedByPriority ==
    last.op = "evaluateRequest" =>
        \A i, j \in 1..Len(last.result) :
            (i < j /\ "priority" \in last.result[i].has /\ "priority" \in last.result[j].has)
                => last.result[i].priority.n >= last.result[j].priority.n

\* whether stored rule r is enabled, its pattern matches the request's URL
\* under its matchType, and its conditions pass
Qualifies(r, req) ==
    /\ "enabled" \in r.has /\ r.enabled
    /\ matchesPattern(req.url, r.urlPattern, r.matchType)
    /\ \A i \in 1..Len(r.conditions) :
          /\ r.conditions[i].type = "method"
                => evaluateCondition(req.method, r.conditions[i].operator,
                                     r.conditions[i].value)
          /\ r.conditions[i].type = "resourceType"
                => evaluateCondition(req.type, r.conditions[i].operator,
                                     r.conditions[i].value)

C3_NextEvaluationReflects ==
    [][(last'.op = "evaluateRequest" /\ last.status = "ok")
        => /\ ((last.op = "toggleRule" /\ ~last.flag) \/ last.op = "deleteRule")
                 => \A i \in 1..Len(last'.result) : ~HasId(last'.result[i], last.id)
           /\ (last.op \in {"toggleRule", "saveRule"} /\ last.flag)
                 => \A r \in Range(rules) :
                       (HasId(r, last.id) /\ Qualifies(r, last'.req))
                           => r \in Range(last'.result)]_vars

\* C5: no two rules of the stored collection have the same id.
C5_UniqueIds ==
    \A i, j \in 1..Len(rules) :
        ("id" \in rules[i].has /\ "id" \in rules[j].has /\ rules[i].id = rules[j].id)
            => i = j

\* rule r agrees with partial p on every field p specifies, id and
\* timestamps aside
AgreesWith(r, p) ==
    \A f \in p.has \ {"id", "createdAt", "updatedAt"} : f \in r.has /\ r[f] = p[f]

\* C6: after saveRule(r) returned id, getRuleById(id) returns a rule equal
\* to r on every field r specifies other than id and the timestamps.
C6_RoundTrip ==
    [][(last.op = "saveRule" /\ last.status = "ok"
            /\ last'.op = "getRuleById" /\ last'.id = last.id)
        => /\ last'.result # <<>>
           /\ AgreesWith(last'.result[1], last.arg)]_vars

\* C7: saveRule with a rule that violates a validation constraint fails
\* before anything is persisted: the call raises an error, reaches no
\* storage write, and leaves the stored collection as it was.
C7_InvalidRuleNotPersisted ==
    [][(last'.op = "saveRule" /\ last'.arg \in InvalidPartials)
        => /\ last'.status = "error"
           /\ ~last'.wrote
           /\ rules' = rules
           /\ rulesKey' = rulesKey]_vars

\* an invalid rule was refused while the store held a rule with its id
C7_Witness ==
    /\ last.op = "saveRule" /\ last.arg \in InvalidPartials
    /\ last.status = "error"
    /\ \E i \in 1..Len(rules) : HasId(rules[i], last.arg.id)

\* C8: importRules rejects a batch that holds an invalid rule, in replace
\* mode and in merge mode: it raises an error, reaches no storage write, and
\* leaves the stored collection as it was.
C8_ImportRejectsWholeBatch ==
    [][(last'.op = "importRules" /\ last'.result \in InvalidBatches)
        => /\ last'.status = "error"
           /\ ~last'.wrote
           /\ rules' = rules
           /\ rulesKey' = rulesKey]_vars

\* a batch with an invalid rule was refused in replace mode while rules
\* were stored
C8_Witness ==
    /\ last.op = "importRules" /\ last.result \in InvalidBatches
    /\ last.flag
    /\ last.status = "error"
    /\ rules # <<>>

\* ---------------------------------------------- header modification alone
\* a request arrives with its headers; no rule is stored
InitHeaders ==
    /\ rules = <<>>
    /\ rulesKey = FALSE
    /\ now = 0
    /\ nextGen = 0
    /\ last = Call("none", "ok", FALSE, TRUE, "", EmptyRule, FALSE, NoRequest, <<>>)
    /\ pending = [c \in Callers |-> Idle(TRUE, FALSE, "none", "")]
    /\ hdr \in {HeaderCall(h, <<>>, h, FALSE, 0) : h \in RequestHeaders}
    /\ IdleInit

\* a whole modifyRequestHeaders(headers, actions) call, on the headers the
\* previous call returned (on the request's own headers, for the first)
ModifyRequestHeaders ==
    \E actions \in ActionLists :
        LET out == modifyRequestHeaders(hdr.out, actions)
        IN  /\ hdr.calls < MaxCalls
            /\ Len(out) <= MaxHeaders
            /\ hdr' = HeaderCall(hdr.out, actions, out, TRUE, hdr.calls + 1)
            /\ UNCHANGED <<rules, rulesKey, now, nextGen, last, pending, idleVars>>

NextHeaders == ModifyRequestHeaders

SpecHeaders == InitHeaders /\ [][NextHeaders]_vars

\* ------------------------------------------------ claims, header operations
\* the header operations of an action list, in list order
RECURSIVE OpsOf(_)
OpsOf(actions) ==
    IF actions = <<>> THEN <<>>
    ELSE (IF Head(actions).type = "modifyHeaders" THEN Head(actions).headers ELSE <<>>)
             \o OpsOf(Tail(actions))

\* the positions of hs that hold a header named n, compared case-insensitively
Named(hs, n) == {i \in 1..Len(hs) : toLowerCase(hs[i].name) = toLowerCase(n)}

\* C9: when the operations handed to modifyRequestHeaders are the same set
\* operation twice (same name, same value), the result holds exactly one
\* header with that name, compared case-insensitively, whatever headers were
\* there before.
C9_SetTwiceOneHeader ==
    LET ops == OpsOf(hdr.actions) IN
    (hdr.applied /\ Len(ops) = 2 /\ ops[1] = ops[2] /\ ops[1].operation = "set")
        => Cardinality(Named(hdr.out, ops[1].name)) = 1

\* the same set operation was applied twice to headers that held two headers
\* of that name, in different case
C9_Witness ==
    LET ops == OpsOf(hdr.actions) IN
    /\ hdr.applied /\ Len(ops) = 2 /\ ops[1] = ops[2] /\ ops[1].operation = "set"
    /\ Cardinality(Named(hdr.headers, ops[1].name)) = 2
    /\ Cardinality({hdr.headers[i].name : i \in Named(hdr.headers, ops[1].name)}) = 2

\* what one operation makes of the headers hs, as the three operations are
\* described: add keeps hs and appends; set drops the headers of that name
\* and appends; remove drops the headers of that name
AfterOp(hs, op) ==
    LET kept == SeqFilter(hs, {hs[i] : i \in (1..Len(hs)) \ Named(hs, op.name)})
        new == Header(op.name, IF op.hasValue THEN op.value ELSE <<>>)
    IN  CASE op.operation = "add" -> hs \o <<new>>
          [] op.operation = "set" -> kept \o <<new>>
          [] op.operation = "remove" -> kept

RECURSIVE AfterOps(_, _)
\* the operations applied one by one, each to the result of the previous ones
AfterOps(hs, ops) ==
    IF ops = <<>> THEN hs ELSE AfterOps(AfterOp(hs, Head(ops)), Tail(ops))

\* C10: modifyRequestHeaders returns what the operations of the action list
\* make of the headers when applied one by one in list order, each to the
\* result of the previous ones; a list without header operations returns the
\* headers unchanged; and a call with actions B on the result of a call with
\* actions A returns what one call with A followed by B returns.
C10_OpsInOrderAndCompose ==
    [][hdr'.applied
        => /\ hdr'.out = AfterOps(hdr'.headers, OpsOf(hdr'.actions))
           /\ (OpsOf(hdr'.actions) = <<>> => hdr'.out = hdr'.headers)
           /\ hdr.applied
                 => hdr'.out = modifyRequestHeaders(hdr.headers, hdr.actions \o hdr'.actions)]_vars

\* a second call followed a first one, both with header operations, the
\* second undoing part of what the first did, with an action of another type
\* in the list
C10_Witness ==
    /\ hdr.applied /\ hdr.calls = 2
    /\ Len(OpsOf(hdr.actions)) >= 1
    /\ \E i \in 1..Len(hdr.actions) : hdr.actions[i].type # "modifyHeaders"
    /\ hdr.headers # <<>>
    /\ hdr.out # hdr.headers
    /\ Len(hdr.out) < Len(hdr.headers)

\* ------------------------------------------------- overlapping mutations
\* the rules the overlapping callers save: one without an id, one with id "a"
ConcPartials ==
    {Partial({"matchType", "priority"}, "", GlobAll, "glob", Num(1), FALSE,
             <<BlockAction>>, <<>>),
     Partial({"id", "matchType", "priority", "enabled"}, "a", GlobA, "glob", Num(2),
             FALSE, <<SetHeaderAction>>, <<>>),
     [BaseValid EXCEPT !.actions = <<>>]}

\* pending with caller c's call begun; the calls in flight now overlap
Started(c, call) ==
    [d \in Callers |->
        IF d = c THEN call
        ELSE IF pending[d].op = "idle" THEN pending[d]
        ELSE [pending[d] EXCEPT !.overlapped = TRUE]]

Overlaps(c) == \E d \in Callers \ {c} : pending[d].op # "idle"

\* saveRule(p) up to the moment getRules() has returned: validation, which
\* ends the call at once when it fails, and the read
BeginSaveRule(c) ==
    \E p \in ConcPartials, readOk \in BOOLEAN :
        LET generates == validateRule(p) /\ ~IsTruthyId(p) IN
        /\ pending[c].op = "idle"
        /\ generates => nextGen < MaxGen
        /\ ~validateRule(p) => readOk
        /\ pending' =
              IF validateRule(p)
              THEN Started(c, InFlight("saveRule", p,
                                       IF generates THEN GenIds[nextGen + 1] ELSE p.id,
                                       FALSE, readOk, getRules(rules, readOk),
                                       Overlaps(c), "none", ""))
              ELSE [pending EXCEPT ![c] = Idle(TRUE, Overlaps(c), "error", "")]
        /\ nextGen' = IF generates THEN nextGen + 1 ELSE nextGen
        /\ UNCHANGED <<rules, rulesKey, now, last, hdr, idleVars>>

\* toggleRule(id, enabled) up to the moment getRules() has returned
BeginToggleRule(c) ==
    \E id \in {"a"}, enabled \in BOOLEAN, readOk \in BOOLEAN :
        /\ pending[c].op = "idle"
        /\ pending' = Started(c, InFlight("toggleRule", EmptyRule, id, enabled, readOk,
                                          getRules(rules, readOk), Overlaps(c), "none", ""))
        /\ UNCHANGED <<rules, rulesKey, now, nextGen, last, hdr, idleVars>>

\* deleteRule(id) up to the moment getRules() has returned
BeginDeleteRule(c) ==
    \E id \in {"a"}, readOk \in BOOLEAN :
        /\ pending[c].op = "idle"
        /\ pending' = Started(c, InFlight("deleteRule", EmptyRule, id, FALSE, readOk,
                                          getRules(rules, readOk), Overlaps(c), "none", ""))
        /\ UNCHANGED <<rules, rulesKey, now, nextGen, last, hdr, idleVars>>

\* the rest of caller c's call: the new collection is computed from the one
\* the call read, storageManager.save writes it, the call returns
Finish(c) ==
    \E writeOk \in BOOLEAN :
        LET call == pending[c]
            out == CASE call.op = "saveRule" ->
                          saveRule(rules, call.snap, call.arg, call.id, now, writeOk)
                     [] call.op = "toggleRule" ->
                          toggleRule(rules, call.snap, call.id, call.flag, now, writeOk)
                     [] call.op = "deleteRule" ->
                          deleteRule(rules, call.snap, call.id, writeOk)
        IN  /\ call.op # "idle"
            /\ ~out.wrote => writeOk
            /\ Len(out.rules) <= MaxRules
            /\ rules' = out.rules
            /\ rulesKey' = (rulesKey \/ (out.status = "ok" /\ out.wrote))
            /\ pending' = [pending EXCEPT ![c] =
                              Idle(call.readOk, call.overlapped, out.status,
                                   IF call.op = "saveRule" THEN out.id ELSE "")]
            /\ UNCHANGED <<now, nextGen, last, hdr, idleVars>>

NextConc ==
    \E c \in Callers :
        \/ BeginSaveRule(c)
        \/ BeginToggleRule(c)
        \/ BeginDeleteRule(c)
        \/ Finish(c)

SpecConc == Init /\ [][NextConc]_vars

\* ------------------------------------------- claims, overlapping mutations
\* a lost update: each caller's last call was a saveRule that overlapped the
\* other's, read the collection successfully and reported success, and the
\* stored collection lacks the rule one of them saved
C4_LostUpdate ==
    /\ \A c \in Callers :
          /\ pending[c].op = "idle" /\ pending[c].status = "ok"
          /\ pending[c].overlapped /\ pending[c].readOk
          /\ pending[c].retId # ""
    /\ \E c \in Callers : \A i \in 1..Len(rules) : ~HasId(rules[i], pending[c].retId)

\* C4, second half: a mutating call that overlapped no other call and
\* reported success loses no update: every rule that was stored when it
\* returned its result to the store, other than rules with the id it
\* targets, is still stored.
C4_NonOverlappingNeverLose ==
    [][\A c \in Callers :
          (/\ pending[c].op # "idle" /\ pending'[c].op = "idle"
           /\ ~pending[c].overlapped
           /\ pending'[c].status = "ok")
              => \A r \in Range(rules) : ~HasId(r, pending[c].id) => r \in Range(rules')]_vars

\* the same, for the calls whose storage read succeeded
C4_NonOverlappingNeverLoseReadOk ==
    [][\A c \in Callers :
          (/\ pending[c].op # "idle" /\ pending'[c].op = "idle"
           /\ ~pending[c].overlapped /\ pending[c].readOk
           /\ pending'[c].status = "ok")
              => \A r \in Range(rules) : ~HasId(r, pending[c].id) => r \in Range(rules')]_vars

\* ------------------------------------------------------ request interceptor
\* shouldBlockRequest(actions)
shouldBlockRequest(actions) == \E i \in 1..Len(actions) : actions[i].type = "block"

\* getRedirectUrl(actions): the redirectUrl of the first redirect action;
\* "" stands for null
getRedirectUrl(actions) ==
    LET found == {i \in 1..Len(actions) : actions[i].type = "redirect"} IN
    IF found = {} THEN ""
    ELSE LET redirectAction == actions[CHOOSE i \in found : \A j \in found : i <= j]
         IN  IF "redirectUrl" \in redirectAction.has THEN redirectAction.redirectUrl
             ELSE ""

RECURSIVE flatMapActions(_)
\* matchingRules.flatMap(rule => rule.actions)
flatMapActions(matchingRules) ==
    IF matchingRules = <<>> THEN <<>>
    ELSE Head(matchingRules).actions \o flatMapActions(Tail(matchingRules))

\* what a handler run leaves: the event, the flattened actions it computed,
\* the call that threw inside it ("none": none did), the BlockingResponse it
\* returned (decision "none": undefined), whether logRequest completed, and
\* whether an error left the handler
Handled(event, actions, threw, decision, redirectUrl, headers, logged, escaped) ==
    [event |-> event, actions |-> actions, threw |-> threw, decision |-> decision,
     redirectUrl |-> redirectUrl, headers |-> headers, logged |-> logged,
     escaped |-> escaped]

\* a decision order that looks for a redirect before it looks for a block
BlockingDecisionAlt(actions) ==
    IF getRedirectUrl(actions) # "" THEN "redirect"
    ELSE IF shouldBlockRequest(actions) THEN "cancel"
    ELSE "none"

\* onBeforeRequest, the order of its checks: block, then redirect, then
\* nothing
BlockingDecision(actions) ==
    IF shouldBlockRequest(actions) THEN "cancel"
    ELSE IF getRedirectUrl(actions) # "" THEN "redirect"
    ELSE "none"

\* an onBeforeRequest that returns its decision although logRequest threw
onBeforeRequestAlt(matchingRules, evalThrows, logThrows) ==
    LET actions == flatMapActions(matchingRules) IN
    Handled("onBeforeRequest", actions, IF logThrows THEN "logRequest" ELSE "none",
            BlockingDecision(actions), "", <<>>, ~logThrows, FALSE)

\* onBeforeRequest(details), given the rules evaluateRequest returned, whether
\* the injected rule engine threw and whether logRequest threw.  Every path
\* awaits logRequest before it returns; the catch block logs the error and
\* returns undefined
onBeforeRequest(matchingRules, evalThrows, logThrows) ==
    LET actions == flatMapActions(matchingRules)
        decision == IF matchingRules = <<>> THEN "none" ELSE BlockingDecision(actions)
    IN  IF evalThrows
        THEN Handled("onBeforeRequest", <<>>, "evaluateRequest", "none", "", <<>>,
                     FALSE, FALSE)
        ELSE IF logThrows
        THEN Handled("onBeforeRequest", actions, "logRequest", "none", "", <<>>,
                     FALSE, FALSE)
        ELSE Handled("onBeforeRequest", actions, "none", decision,
                     IF decision = "redirect" THEN getRedirectUrl(actions) ELSE "",
                     <<>>, TRUE, FALSE)

\* onBeforeSendHeaders / onHeadersReceived(details): hasHeaders is whether
\* details carries the header list, computeThrows whether the modification
\* computation threw
onHeaders(event, matchingRules, hasHeaders, headers, evalThrows, computeThrows) ==
    LET actions == flatMapActions(matchingRules)
        given == IF hasHeaders THEN headers ELSE <<>>
        modifiedHeaders == modifyRequestHeaders(given, actions)
        \* lengths differ, or JSON.stringify differs (of undefined: undefined)
        changed == ~hasHeaders \/ modifiedHeaders # given
    IN  IF evalThrows
        THEN Handled(event, <<>>, "evaluateRequest", "none", "", <<>>, FALSE, FALSE)
        ELSE IF matchingRules = <<>>
        THEN Handled(event, <<>>, "none", "none", "", <<>>, FALSE, FALSE)
        ELSE IF computeThrows
        THEN Handled(event, actions, "modifyHeaders", "none", "", <<>>, FALSE, FALSE)
        ELSE IF changed
        THEN Handled(event, actions, "none", "headers", "", modifiedHeaders, FALSE, FALSE)
        ELSE Handled(event, actions, "none", "none", "", <<>>, FALSE, FALSE)

\* the listener initialize() registers for the event: it calls the handler
\* without awaiting it and returns undefined to the host; returned is the
\* BlockingResponse the host gets
listener(handled) ==
    [returned |-> [decision |-> "none", redirectUrl |-> "", headers |-> <<>>]] @@ handled

\* a stored rule that matches every URL
InterceptRule(id, priority, enabled, actions) ==
    NewRule(Partial({"id", "matchType", "priority", "enabled"}, id, GlobAll, "glob",
                    Num(priority), enabled, actions, <<>>), id, 0)

\* the rules of the interceptor's collections: a block rule of low priority,
\* a redirect rule of high priority, a header rule, a disabled block rule
InterceptRules ==
    {InterceptRule("b", 1, TRUE, <<BlockAction>>),
     InterceptRule("r", 5, TRUE, <<RedirectAction("https://r.example/")>>),
     InterceptRule("h", 3, TRUE, <<SetHeaderAction>>),
     InterceptRule("d", 9, FALSE, <<BlockAction>>)}

\* the stored collections: up to two different rules, in either order
InterceptCollections ==
    {<<>>} \cup {<<r>> : r \in InterceptRules}
           \cup {c \in {<<r, q>> : r \in InterceptRules, q \in InterceptRules} :
                     c[1] # c[2]}

InitInterceptor ==
    /\ rules \in InterceptCollections
    /\ rulesKey = TRUE
    /\ now = 0
    /\ nextGen = 0
    /\ last = Call("none", "ok", FALSE, TRUE, "", EmptyRule, FALSE, NoRequest, <<>>)
    /\ pending = [c \in Callers |-> Idle(TRUE, FALSE, "none", "")]
    /\ hdr = NoHeaders
    /\ IdleInit

\* the onBeforeRequest listener and the whole handler run it starts
OnBeforeRequest ==
    \E req \in Requests, readOk \in BOOLEAN, evalThrows \in BOOLEAN, logThrows \in BOOLEAN :
        \E matchingRules \in evaluateRequest(getRules(rules, readOk), req) :
            /\ evalThrows => (readOk /\ ~logThrows)
            /\ handler' = listener(onBeforeRequest(matchingRules, evalThrows, logThrows))
            /\ UNCHANGED <<rules, rulesKey, now, nextGen, last, pending, hdr, race, store, ret, mockVars>>

\* the onBeforeSendHeaders listener and the whole handler run it starts
OnBeforeSendHeaders ==
    \E req \in Requests, readOk \in BOOLEAN, evalThrows \in BOOLEAN,
       computeThrows \in BOOLEAN, hasHeaders \in BOOLEAN, headers \in RequestHeaders :
        \E matchingRules \in evaluateRequest(getRules(rules, readOk), req) :
            /\ evalThrows => (readOk /\ ~computeThrows)
            /\ ~hasHeaders => headers = <<>>
            /\ handler' = listener(onHeaders("onBeforeSendHeaders", matchingRules,
                                             hasHeaders, headers, evalThrows,
                                             computeThrows))
            /\ UNCHANGED <<rules, rulesKey, now, nextGen, last, pending, hdr, race, store, ret, mockVars>>

\* the onHeadersReceived listener and the whole handler run it starts:
\* modifyResponseHeaders is modifyRequestHeaders
OnHeadersReceived ==
    \E req \in Requests, readOk \in BOOLEAN, evalThrows \in BOOLEAN,
       computeThrows \in BOOLEAN, hasHeaders \in BOOLEAN, headers \in RequestHeaders :
        \E matchingRules \in evaluateRequest(getRules(rules, readOk), req) :
            /\ evalThrows => (readOk /\ ~computeThrows)
            /\ ~hasHeaders => headers = <<>>
            /\ handler' = listener(onHeaders("onHeadersReceived", matchingRules,
                                             hasHeaders, headers, evalThrows,
                                             computeThrows))
            /\ UNCHANGED <<rules, rulesKey, now, nextGen, last, pending, hdr, race, store, ret, mockVars>>

NextInterceptor ==
    \/ OnBeforeRequest
    \/ OnBeforeSendHeaders
    \/ OnHeadersReceived

SpecInterceptor == InitInterceptor /\ [][NextInterceptor]_vars

C13_ErrorMeansNoModification ==
    (handler.event # "none" /\ handler.threw # "none") =>
        /\ handler.decision = "none"
        /\ handler.redirectUrl = "" /\ handler.headers = <<>>
        /\ ~handler.escaped

\* logRequest threw in a run whose actions held a block action
C13_Witness ==
    /\ handler.event = "onBeforeRequest" /\ handler.threw = "logRequest"
    /\ shouldBlockRequest(handler.actions)
    /\ handler.decision = "none"

\* ------------------------------------------- applyModificationsWithTimeout
TIMEOUT_MS == 5000

\* what modificationFn may resolve with
FnResults == {"v1", "v2"}

\* one applyModificationsWithTimeout call: the state of the promise it
\* returned (phase, and once settled outcome and value), of modificationFn's
\* promise (fn, fnValue), of the timer (timer; elapsed: milliseconds since
\* setTimeout)
RaceCall(phase, outcome, value, fn, fnValue, timer, elapsed) ==
    [phase |-> phase, outcome |-> outcome, value |-> value, fn |-> fn,
     fnValue |-> fnValue, timer |-> timer, elapsed |-> elapsed]

NotCalled == RaceCall("none", "none", "", "none", "", "unset", 0)

\* a promise that takes every settlement, the last one winning
settleAlt(call, outcome, value) ==
    [call EXCEPT !.phase = "settled", !.outcome = outcome, !.value = value]

\* Promise.race: the first of its promises to settle settles it; resolving
\* or rejecting a settled promise does nothing
settle(call, outcome, value) ==
    IF call.phase = "pending"
    THEN [call EXCEPT !.phase = "settled", !.outcome = outcome, !.value = value]
    ELSE call

InitTimeout ==
    /\ rules = <<>>
    /\ rulesKey = FALSE
    /\ now = 0
    /\ nextGen = 0
    /\ last = Call("none", "ok", FALSE, TRUE, "", EmptyRule, FALSE, NoRequest, <<>>)
    /\ pending = [c \in Callers |-> Idle(TRUE, FALSE, "none", "")]
    /\ hdr = NoHeaders
    /\ handler = [event |-> "none"]
    /\ race = [c \in Callers |-> NotCalled]
    /\ store = <<>>
    /\ ret = [op |-> "none"]
    /\ MockInit

timeoutIdle == <<rules, rulesKey, now, nextGen, last, pending, hdr, handler, store, ret,
                 mockVars>>

\* applyModificationsWithTimeout(modificationFn) up to its return: it calls
\* modificationFn(), then arms the timer.  A modificationFn that throws
\* before it returns its promise rejects the call at once, and no timer is
\* armed
ApplyModificationsWithTimeout(c) ==
    /\ race[c].phase = "none"
    /\ \E throwsAtOnce \in BOOLEAN :
        race' = [race EXCEPT ![c] =
                    IF throwsAtOnce
                    THEN RaceCall("settled", "fnError", "", "rejected", "", "unset", 0)
                    ELSE RaceCall("pending", "none", "", "running", "", "armed", 0)]
    /\ UNCHANGED timeoutIdle

\* modificationFn's promise resolves
FnResolves(c) ==
    /\ race[c].fn = "running"
    /\ \E v \in FnResults :
        race' = [race EXCEPT ![c] =
                    settle([race[c] EXCEPT !.fn = "resolved", !.fnValue = v], "value", v)]
    /\ UNCHANGED timeoutIdle

\* modificationFn's promise rejects
FnRejects(c) ==
    /\ race[c].fn = "running"
    /\ race' = [race EXCEPT ![c] =
                    settle([race[c] EXCEPT !.fn = "rejected"], "fnError", "")]
    /\ UNCHANGED timeoutIdle

\* time passes for an armed timer
Tick(c) ==
    /\ race[c].timer = "armed"
    /\ race[c].elapsed < TIMEOUT_MS
    /\ race' = [race EXCEPT ![c].elapsed = @ + TickMs]
    /\ UNCHANGED timeoutIdle

\* the timer's callback runs: reject(new Error('Modification timeout exceeded'))
TimerFires(c) ==
    /\ race[c].timer = "armed"
    /\ race[c].elapsed >= TIMEOUT_MS
    /\ race' = [race EXCEPT ![c] =
                    settle([race[c] EXCEPT !.timer = "fired"], "timeout", "")]
    /\ UNCHANGED timeoutIdle

NextTimeout ==
    \E c \in Callers :
        \/ ApplyModificationsWithTimeout(c)
        \/ FnResolves(c)
        \/ FnRejects(c)
        \/ Tick(c)
        \/ TimerFires(c)

\* the event loop runs a timer's callback once its delay has passed;
\* nothing makes modificationFn's promise settle
SpecTimeout ==
    /\ InitTimeout
    /\ [][NextTimeout]_vars
    /\ \A c \in Callers : WF_vars(Tick(c)) /\ WF_vars(TimerFires(c))

\* C12: a call's promise settles once and keeps its outcome; while it is
\* pending, modificationFn's result or error settles it with that result or
\* error, and the timer, fired no sooner than TIMEOUT_MS after it was armed,
\* settles it with the timeout error; what modificationFn produces after
\* that changes nothing; and every call made is settled in the end.
C12_SettlesOnceAndInTime ==
    /\ [][\A c \in Callers :
            /\ race[c].phase = "settled" =>
                 /\ race'[c].phase = "settled"
                 /\ race'[c].outcome = race[c].outcome
                 /\ race'[c].value = race[c].value
            /\ (race[c].phase = "pending" /\ race[c].fn = "running"
                    /\ race'[c].fn = "resolved") =>
                 /\ race'[c].phase = "settled" /\ race'[c].outcome = "value"
                 /\ race'[c].value = race'[c].fnValue
            /\ (race[c].phase = "pending" /\ race[c].fn = "running"
                    /\ race'[c].fn = "rejected") =>
                 race'[c].phase = "settled" /\ race'[c].outcome = "fnError"
            /\ (race[c].phase = "pending" /\ race[c].timer = "armed"
                    /\ race'[c].timer = "fired") =>
                 /\ race'[c].phase = "settled" /\ race'[c].outcome = "timeout"
                 /\ race[c].elapsed >= TIMEOUT_MS
            /\ (race[c].phase = "pending" /\ race'[c].phase = "settled") =>
                 race'[c].fn # race[c].fn \/ race'[c].timer # race[c].timer]_vars
    /\ \A c \in Callers : (race[c].phase # "none") ~> (race[c].phase = "settled")

\* the timer settled a call with the timeout error and modificationFn
\* resolved afterwards
C12_Witness ==
    \E c \in Callers :
        /\ race[c].phase = "settled" /\ race[c].outcome = "timeout"
        /\ race[c].fn = "resolved" /\ race[c].fnValue \in FnResults
        /\ race[c].timer = "fired"

\* ---------------------------------------------------------- storage manager
\* JavaScript values as the storage layer is given them: an object with at
\* most one of the fields timestamp, createdAt and timing.startTime (field:
\* which one, "none" for none; t: its value) and bytes of other content, an
\* array of such objects, a number, NaN, null and undefined
Value(kind, field, t, items, bytes) ==
    [kind |-> kind, field |-> field, t |-> t, items |-> items, bytes |-> bytes]

JSObject(field, t, bytes) == Value("object", field, t, <<>>, bytes)
JSArray(items) == Value("array", "none", 0, items, 0)
JSNumber(n) == Value("number", "none", n, <<>>, 0)
NaN == Value("nan", "none", 0, <<>>, 0)
Null == Value("null", "none", 0, <<>>, 0)
Undefined == Value("undefined", "none", 0, <<>>, 0)

\* a string holding JSON text, as the text's value
Text(json) == [kind |-> "string", json |-> json]

\* JSON.stringify(data): undefined for undefined, the text null for NaN
JSONstringify(data) ==
    IF data.kind = "undefined" THEN Undefined
    ELSE IF data.kind = "nan" THEN Text(Null)
    ELSE Text(data)

\* JSON.parse(text)
JSONparse(text) == text.json

RECURSIVE SumBytes(_)
\* the bytes of the elements of an array, summed half by half
SumBytes(items) ==
    IF items = <<>> THEN 0
    ELSE IF Len(items) = 1 THEN items[1].bytes
    ELSE LET half == Len(items) \div 2 IN
         SumBytes(SubSeq(items, 1, half)) + SumBytes(SubSeq(items, half + 1, Len(items)))

\* the bytes a stored item takes
BytesOf(item) ==
    LET v == IF item.kind = "string" THEN item.json ELSE item IN
    IF v.kind = "object" THEN v.bytes
    ELSE IF v.kind = "array" THEN SumBytes(v.items)
    ELSE 0

RECURSIVE SumOver(_, _)
SumOver(st, ks) ==
    IF ks = {} THEN 0
    ELSE LET k == CHOOSE x \in ks : TRUE IN BytesOf(st[k]) + SumOver(st, ks \ {k})

\* chrome.storage.local.getBytesInUse()
getBytesInUse(st) == SumOver(st, DOMAIN st)

\* StorageManager.STORAGE_QUOTA, which is chrome.storage.local's quota
STORAGE_QUOTA == 10 * 1024 * 1024

\* percentUsed >= StorageManager.QUOTA_THRESHOLD (0.8), for percentUsed =
\* bytesInUse / STORAGE_QUOTA
AtThreshold(bytesInUse) == bytesInUse * 10 >= 8 * STORAGE_QUOTA

\* a storage with items put into it, and with keys removed from it
Put(st, items) ==
    [k \in DOMAIN st \cup DOMAIN items |-> IF k \in DOMAIN items THEN items[k] ELSE st[k]]

Without(st, ks) == [k \in DOMAIN st \ ks |-> st[k]]

\* chrome.storage.local.set(items) rejects when the call fails and when the
\* items do not fit into the quota
setRejects(st, items, setOk) ==
    ~setOk \/ getBytesInUse(Put(st, items)) > STORAGE_QUOTA

\* getStorageInfo().bytesInUse: 0 when getBytesInUse fails
getStorageInfo(st, infoOk) == IF infoOk THEN getBytesInUse(st) ELSE 0

\* isTimestampedData(data)
isTimestampedData(data) ==
    LET d == IF data.kind = "string" THEN JSONparse(data) ELSE data IN
    d.kind = "object" /\ d.field # "none"

\* extractTimestamp(data): data.timestamp || data.createdAt ||
\* data.timing?.startTime || null, with 0 standing for null as well: what
\* the callers test is its truth, and what they sort by is the result || 0
extractTimestamp(data) ==
    LET d == IF data.kind = "string" THEN JSONparse(data) ELSE data IN
    IF d.kind = "object" /\ d.field # "none" THEN d.t ELSE 0

RECURSIVE SortedByTimestamp(_, _)
\* the keys ks of st sorted by timeA - timeB, in every order a stable sort
\* can leave keys of equal time in (the order of Object.entries is the
\* storage API's)
SortedByTimestamp(st, ks) ==
    IF ks = {} THEN {<<>>}
    ELSE UNION {{<<k>> \o rest : rest \in SortedByTimestamp(st, ks \ {k})} :
                  k \in {x \in ks : \A y \in ks :
                            extractTimestamp(st[x]) <= extractTimestamp(st[y])}}

\* what a storage call leaves: the storage, whether the call threw, what it
\* returned, and the keys its eviction removed
Stored(st, status, value, evicted) ==
    [store |-> st, status |-> status, value |-> value, evicted |-> evicted]

\* a performCleanup that ranks every entry, timestamped or not
performCleanupAll(st, readOk, removeOk) ==
    LET removeCount == (Cardinality(DOMAIN st) + 4) \div 5
    IN  IF ~readOk \/ ~removeOk \/ removeCount = 0
        THEN {Stored(st, "ok", Null, {})}
        ELSE {Stored(Without(st, Range(SubSeq(sortedEntries, 1, removeCount))), "ok",
                     Null, Range(SubSeq(sortedEntries, 1, removeCount))) :
                 sortedEntries \in SortedByTimestamp(st, DOMAIN st)}

\* performCleanup(), the possible results: nothing happens when its read or
\* its removal fails
performCleanup(st, readOk, removeOk) ==
    LET timestamped == {k \in DOMAIN st : isTimestampedData(st[k])}
        removeCount == (Cardinality(timestamped) + 4) \div 5
    IN  IF ~readOk \/ ~removeOk \/ removeCount = 0
        THEN {Stored(st, "ok", Null, {})}
        ELSE {Stored(Without(st, Range(SubSeq(sortedEntries, 1, removeCount))), "ok",
                     Null, Range(SubSeq(sortedEntries, 1, removeCount))) :
                 sortedEntries \in SortedByTimestamp(st, timestamped)}

\* a saveMultiple that gives up when its eviction cannot read or remove
saveMultipleAbort(st, values, infoOk, readOk, removeOk, setOk) ==
    IF AtThreshold(getStorageInfo(st, infoOk)) /\ ~(readOk /\ removeOk)
    THEN {Stored(st, "error", Null, {})}
    ELSE {IF \E k \in DOMAIN values : values[k].kind = "undefined"
          THEN Stored(c.store, "error", Null, c.evicted)
          ELSE IF setRejects(c.store, [k \in DOMAIN values |-> JSONstringify(values[k])],
                             setOk)
          THEN Stored(c.store, "error", Null, c.evicted)
          ELSE Stored(Put(c.store, [k \in DOMAIN values |-> JSONstringify(values[k])]),
                      "ok", Null, c.evicted) :
             c \in IF AtThreshold(getStorageInfo(st, infoOk))
                   THEN performCleanup(st, readOk, removeOk)
                   ELSE {Stored(st, "ok", Null, {})}}

\* a saveMultiple that writes its items whatever the usage is
saveMultipleAlt(st, values, infoOk, readOk, removeOk, setOk) ==
    IF \E k \in DOMAIN values : values[k].kind = "undefined"
    THEN {Stored(st, "error", Null, {})}
    ELSE {IF setRejects(st, [k \in DOMAIN values |-> JSONstringify(values[k])], setOk)
          THEN Stored(st, "error", Null, {})
          ELSE Stored(Put(st, [k \in DOMAIN values |-> JSONstringify(values[k])]),
                      "ok", Null, {})}

\* saveMultiple(items), the possible results; save(key, data) is the same
\* with one item.  The length of undefined, which JSON.stringify returns for
\* undefined, is a TypeError
saveMultiple(st, values, infoOk, readOk, removeOk, setOk) ==
    LET cleaned == IF AtThreshold(getStorageInfo(st, infoOk))
                   THEN performCleanup(st, readOk, removeOk)
                   ELSE {Stored(st, "ok", Null, {})}
        processedItems == [k \in DOMAIN values |-> JSONstringify(values[k])]
    IN  {IF \E k \in DOMAIN values : values[k].kind = "undefined"
         THEN Stored(c.store, "error", Null, c.evicted)
         ELSE IF setRejects(c.store, processedItems, setOk)
         THEN Stored(c.store, "error", Null, c.evicted)
         ELSE Stored(Put(c.store, processedItems), "ok", Null, c.evicted) :
            c \in cleaned}

\* save(key, data)
save(st, key, data, infoOk, readOk, removeOk, setOk) ==
    saveMultiple(st, [k \in {key} |-> data], infoOk, readOk, removeOk, setOk)

\* get(key): null for an absent key
get(st, key, readOk) ==
    IF ~readOk THEN Stored(st, "error", Null, {})
    ELSE IF key \notin DOMAIN st THEN Stored(st, "ok", Null, {})
    ELSE Stored(st, "ok", JSONparse(st[key]), {})

\* remove(key)
remove(st, key, removeOk) ==
    IF ~removeOk THEN Stored(st, "error", Null, {})
    ELSE Stored(Without(st, {key}), "ok", Null, {})

\* getMultiple(keys): the map of the keys found; {} when the read fails
getMultiple(st, keys, readOk) ==
    IF ~readOk THEN Stored(st, "ok", <<>>, {})
    ELSE Stored(st, "ok", [k \in keys \cap DOMAIN st |-> JSONparse(st[k])], {})

\* StorageManager.cleanOldData(retentionDays) at time t; the unit of time is
\* the day
cleanOldData(st, retentionDays, t, readOk, removeOk) ==
    LET cutoffTime == t - retentionDays
        keysToRemove == {k \in DOMAIN st :
                            /\ isTimestampedData(st[k])
                            /\ extractTimestamp(st[k]) # 0
                            /\ extractTimestamp(st[k]) < cutoffTime}
    IN  IF ~readOk THEN Stored(st, "error", Null, {})
        ELSE IF keysToRemove = {} THEN Stored(st, "ok", Null, {})
        ELSE IF ~removeOk THEN Stored(st, "error", Null, {})
        ELSE Stored(Without(st, keysToRemove), "ok", Null, keysToRemove)

\* ------------------------------------------ storage manager, specification
MiB == 1024 * 1024

\* a stored object of mb MiB with one timestamp field
Stamped(field, t, mb) == Text(JSObject(field, t, mb * MiB))

\* a stored object of mb MiB without a timestamp field
Plain(mb) == Text(JSObject("none", 0, mb * MiB))

\* the storages a behaviour starts from: empty; six timestamped entries
\* below the threshold, and at it; equal and zero timestamps in all three
\* fields beside an entry without one; entries without timestamp that fill
\* the quota; five timestamped entries that fill it
PreparedStores ==
    {<<>>,
     ("a" :> Stamped("timestamp", 5, 1) @@ "b" :> Stamped("timestamp", 3, 1)
       @@ "c" :> Stamped("timestamp", 1, 1) @@ "d" :> Stamped("timestamp", 4, 1)
       @@ "e" :> Stamped("timestamp", 2, 1) @@ "f" :> Stamped("timestamp", 6, 1)),
     ("a" :> Stamped("timestamp", 5, 2) @@ "b" :> Stamped("timestamp", 3, 2)
       @@ "c" :> Stamped("timestamp", 1, 1) @@ "d" :> Stamped("timestamp", 4, 1)
       @@ "e" :> Stamped("timestamp", 2, 1) @@ "f" :> Stamped("timestamp", 6, 1)),
     ("a" :> Stamped("timestamp", 0, 2) @@ "b" :> Stamped("createdAt", 2, 2)
       @@ "c" :> Stamped("startTime", 2, 2) @@ "d" :> Plain(3)),
     ("a" :> Plain(5) @@ "b" :> Plain(5)),
     ("a" :> Stamped("timestamp", 5, 2) @@ "b" :> Stamped("timestamp", 3, 2)
       @@ "c" :> Stamped("timestamp", 1, 2) @@ "d" :> Stamped("timestamp", 4, 2)
       @@ "e" :> Stamped("timestamp", 2, 2))}

\* the arguments of the calls
SaveKeys == {"a", "n"}
SaveValues == {JSObject("timestamp", 7, MiB), JSObject("none", 0, 3 * MiB), NaN, Undefined}
SaveBatches ==
    {("a" :> JSObject("timestamp", 7, MiB) @@ "n" :> JSNumber(1)),
     ("n" :> JSObject("createdAt", 1, MiB) @@ "m" :> Undefined)}
KeySets == {{"a", "n"}, {"c"}}
RetentionDays == {1, 3, 30}

\* the record of a completed storage call: its arguments, whether its
\* storage operations succeeded (infoOk: getBytesInUse; cleanupOk: the read
\* and the removal of performCleanup; ioOk: the call's own read, write or
\* removal), the storage before it, and what it left
StorageCall(op, keys, values, infoOk, cleanupOk, ioOk, before, out, calls) ==
    [op |-> op, keys |-> keys, values |-> values, infoOk |-> infoOk,
     cleanupOk |-> cleanupOk, ioOk |-> ioOk, before |-> before,
     status |-> out.status, value |-> out.value, evicted |-> out.evicted,
     calls |-> calls]

NoCall ==
    StorageCall("none", {}, <<>>, TRUE, TRUE, TRUE, <<>>, Stored(<<>>, "ok", Null, {}), 0)

InitStorage ==
    /\ rules = <<>>
    /\ rulesKey = FALSE
    /\ now = Today
    /\ nextGen = 0
    /\ last = Call("none", "ok", FALSE, TRUE, "", EmptyRule, FALSE, NoRequest, <<>>)
    /\ pending = [c \in Callers |-> Idle(TRUE, FALSE, "none", "")]
    /\ hdr = NoHeaders
    /\ handler = [event |-> "none"]
    /\ race = [phase |-> "none"]
    /\ store \in PreparedStores
    /\ ret = NoCall
    /\ MockInit

storageIdle == <<rules, rulesKey, now, nextGen, last, pending, hdr, handler, race,
                 mockVars>>

\* In the actions below a storage operation the call does not reach is held
\* at success, so that one call is one step.

\* a whole saveMultiple(items) call
SaveMultiple ==
    /\ ret.calls < MaxOps
    /\ \E values \in SaveBatches, infoOk, readOk, removeOk, setOk \in BOOLEAN :
        /\ ~AtThreshold(getStorageInfo(store, infoOk)) => (readOk /\ removeOk)
        /\ ~readOk => removeOk
        /\ (\E k \in DOMAIN values : values[k].kind = "undefined") => setOk
        /\ \E out \in saveMultiple(store, values, infoOk, readOk, removeOk, setOk) :
            /\ store' = out.store
            /\ ret' = StorageCall("saveMultiple", DOMAIN values, values, infoOk,
                                  readOk /\ removeOk, setOk, store, out, ret.calls + 1)
    /\ UNCHANGED storageIdle

\* a whole save(key, data) call
Save ==
    /\ ret.calls < MaxOps
    /\ \E key \in SaveKeys, data \in SaveValues, infoOk, readOk, removeOk, setOk \in BOOLEAN :
        /\ ~AtThreshold(getStorageInfo(store, infoOk)) => (readOk /\ removeOk)
        /\ ~readOk => removeOk
        /\ data.kind = "undefined" => setOk
        /\ \E out \in save(store, key, data, infoOk, readOk, removeOk, setOk) :
            /\ store' = out.store
            /\ ret' = StorageCall("save", {key}, [k \in {key} |-> data], infoOk,
                                  readOk /\ removeOk, setOk, store, out, ret.calls + 1)
    /\ UNCHANGED storageIdle

\* a whole get(key) call
Get ==
    /\ ret.calls < MaxOps
    /\ \E key \in SaveKeys, readOk \in BOOLEAN :
        LET out == get(store, key, readOk) IN
        /\ store' = out.store
        /\ ret' = StorageCall("get", {key}, <<>>, TRUE, TRUE, readOk, store, out,
                              ret.calls + 1)
    /\ UNCHANGED storageIdle

\* a whole remove(key) call
Remove ==
    /\ ret.calls < MaxOps
    /\ \E key \in SaveKeys, removeOk \in BOOLEAN :
        LET out == remove(store, key, removeOk) IN
        /\ store' = out.store
        /\ ret' = StorageCall("remove", {key}, <<>>, TRUE, TRUE, removeOk, store, out,
                              ret.calls + 1)
    /\ UNCHANGED storageIdle

\* a whole getMultiple(keys) call
GetMultiple ==
    /\ ret.calls < MaxOps
    /\ \E keys \in KeySets, readOk \in BOOLEAN :
        LET out == getMultiple(store, keys, readOk) IN
        /\ store' = out.store
        /\ ret' = StorageCall("getMultiple", keys, <<>>, TRUE, TRUE, readOk, store, out,
                              ret.calls + 1)
    /\ UNCHANGED storageIdle

\* a whole StorageManager.cleanOldData(retentionDays) call
CleanOldData ==
    /\ ret.calls < MaxOps
    /\ \E retentionDays \in RetentionDays, readOk, removeOk \in BOOLEAN :
        LET out == cleanOldData(store, retentionDays, now, readOk, removeOk) IN
        /\ ~readOk => removeOk
        /\ (out.status = "ok" /\ out.evicted = {}) => removeOk
        /\ store' = out.store
        /\ ret' = StorageCall("cleanOldData", {}, JSNumber(retentionDays), TRUE, TRUE,
                              readOk /\ removeOk, store, out, ret.calls + 1)
    /\ UNCHANGED storageIdle

NextStorage ==
    \/ Save
    \/ SaveMultiple
    \/ Get
    \/ Remove
    \/ GetMultiple
    \/ CleanOldData

SpecStorage == InitStorage /\ [][NextStorage]_vars

\* ------------------------------------------------ claims, storage manager
\* the entries of a storage that carry a timestamp field, and the timestamp
\* an entry carries
TimestampedKeys(st) == {k \in DOMAIN st : st[k].json.kind = "object" /\ st[k].json.field # "none"}

TimestampOf(st, k) == st[k].json.t

\* the keys a completed save or saveMultiple wrote
Written == IF ret.status = "ok" THEN ret.keys ELSE {}

\* ks are the ceil(0.2 * n) entries of the smallest timestamps among the n
\* timestamped entries of st
OldestFifth(st, ks) ==
    LET n == Cardinality(TimestampedKeys(st)) IN
    /\ ks \subseteq TimestampedKeys(st)
    /\ 5 * Cardinality(ks) >= n
    /\ 5 * (Cardinality(ks) - 1) < n
    /\ \A r \in ks, k \in TimestampedKeys(st) \ ks : TimestampOf(st, r) <= TimestampOf(st, k)

\* what a save or saveMultiple call did to the entries, given whether its
\* eviction is held to have run
EvictionAsClaimed(ran) ==
    LET percentUsedRead == IF ret.infoOk THEN getBytesInUse(ret.before) ELSE 0 IN
    /\ DOMAIN ret.before \ DOMAIN store = ret.evicted \ Written
    /\ IF AtThreshold(percentUsedRead) /\ ran
       THEN OldestFifth(ret.before, ret.evicted)
       ELSE AtThreshold(percentUsedRead) \/ ret.evicted = {}

\* C14 as stated: a save or saveMultiple call that read a percentUsed at or
\* above 0.8 removed exactly the ceil(0.2 * n) entries of the smallest
\* timestamps among the n timestamped entries, and one that read less
\* removed no entry.
C14_EvictsOldestFifth ==
    ret.op \in {"save", "saveMultiple"} => EvictionAsClaimed(TRUE)

\* C14, amended: the same for the calls whose eviction could read and remove
\* entries; a call whose eviction failed at that removed no entry.
C14_EvictsOldestFifthUnlessItFails ==
    ret.op \in {"save", "saveMultiple"} =>
        /\ EvictionAsClaimed(ret.cleanupOk)
        /\ ~ret.cleanupOk => ret.evicted = {}

\* a saveMultiple at the threshold that removed two of six timestamped
\* entries and wrote its items
C14_Witness ==
    /\ ret.op = "saveMultiple" /\ ret.status = "ok"
    /\ Cardinality(TimestampedKeys(ret.before)) = 6
    /\ Cardinality(ret.evicted) = 2
    /\ DOMAIN store = (DOMAIN ret.before \ ret.evicted) \cup ret.keys

\* C15: a save or saveMultiple call at or above 0.8 leaves the oldest fifth
\* of the timestamped entries removed, and no save or saveMultiple call
\* whose storage operations all work fails.
C15_NoQuotaFailure ==
    (/\ ret.op \in {"save", "saveMultiple"}
     /\ ret.infoOk /\ ret.cleanupOk /\ ret.ioOk
     /\ \A k \in ret.keys : ret.values[k].kind # "undefined") =>
        /\ AtThreshold(getBytesInUse(ret.before)) => OldestFifth(ret.before, ret.evicted)
        /\ ret.status = "ok"

\* C17: a cleanOldData(retentionDays) call of the storage layer removes
\* exactly the entries whose timestamp is older than now minus retentionDays
\* days and retains every other entry.
C17_RemovesExactlyOlder ==
    (ret.op = "cleanOldData" /\ ret.status = "ok") =>
        DOMAIN ret.before \ DOMAIN store =
            {k \in TimestampedKeys(ret.before) :
                TimestampOf(ret.before, k) < now - ret.values.t}

\* C18: a save, get, remove, saveMultiple or getMultiple call whose read,
\* write or removal failed raised an error.
C18_FailuresAreRaised ==
    (ret.op \in {"save", "get", "remove", "saveMultiple", "getMultiple"} /\ ~ret.ioOk) =>
        ret.status = "error"

\* C19: a get or getMultiple that follows a completed save or saveMultiple
\* of its keys returns the saved values, and get of a key that is not stored
\* returns null.
C19_RoundTrip ==
    [][/\ (ret.op \in {"save", "saveMultiple"} /\ ret.status = "ok"
              /\ ret'.op = "get" /\ ret'.status = "ok"
              /\ ret'.keys \subseteq ret.keys) =>
            \A k \in ret'.keys : ret'.value = ret.values[k]
       /\ (ret.op \in {"save", "saveMultiple"} /\ ret.status = "ok"
              /\ ret'.op = "getMultiple" /\ ret'.keys \subseteq ret.keys) =>
            ret'.value = [k \in ret'.keys |-> ret.values[k]]
       /\ (ret'.op = "get" /\ ret'.status = "ok" /\ ret'.keys \cap DOMAIN store = {}) =>
            ret'.value = Null]_vars

\* a get or getMultiple whose read worked, after a completed save or
\* saveMultiple of JSON values, returns the saved values
C19_RoundTripOfJsonWhenReadsWork ==
    [][(/\ ret.op \in {"save", "saveMultiple"} /\ ret.status = "ok"
        /\ \A k \in ret.keys : ret.values[k].kind # "nan"
        /\ ret'.op \in {"get", "getMultiple"} /\ ret'.ioOk
        /\ ret'.keys \subseteq ret.keys) =>
            /\ ret'.status = "ok"
            /\ ret'.op = "get" => \A k \in ret'.keys : ret'.value = ret.values[k]
            /\ ret'.op = "getMultiple" => ret'.value = [k \in ret'.keys |-> ret.values[k]]]_vars

\* ----------------------------------------------------------- request logger
LOGS_KEY == "request_logs"
MAX_LOGS_KEY == "max_stored_requests"
DEFAULT_MAX_LOGS == 1000

\* a request log: an object with its id, its timing.startTime (field "none":
\* without one) and bytes of other content
RequestLog(id, field, t, bytes) ==
    [kind |-> "object", field |-> field, t |-> t, items |-> <<>>, bytes |-> bytes,
     id |-> id]

\* getAllLogs(): [] for an absent key and for a failed read
getAllLogs(st, readOk) ==
    LET logs == get(st, LOGS_KEY, readOk) IN
    IF logs.status = "error" \/ logs.value.kind # "array" THEN <<>>
    ELSE logs.value.items

\* getMaxLogs(): maxLogs || DEFAULT_MAX_LOGS, the default for a failed read
getMaxLogs(st, readOk) ==
    LET maxLogs == get(st, MAX_LOGS_KEY, readOk) IN
    IF maxLogs.status = "error" \/ maxLogs.value.kind # "number" \/ maxLogs.value.t = 0
    THEN DEFAULT_MAX_LOGS
    ELSE maxLogs.value.t

\* logs.splice(0, logs.length - maxLogs) when logs.length > maxLogs
Trimmed(logs, maxLogs) ==
    IF Len(logs) > maxLogs THEN SubSeq(logs, Len(logs) - maxLogs + 1, Len(logs))
    ELSE logs

\* logRequest(log), log with its generated id; the possible results
logRequest(st, log, logsOk, maxOk, infoOk, readOk, removeOk, setOk) ==
    LET logs == Append(getAllLogs(st, logsOk), log)
        maxLogs == getMaxLogs(st, maxOk)
    IN  save(st, LOGS_KEY, JSArray(Trimmed(logs, maxLogs)), infoOk, readOk, removeOk, setOk)

RECURSIVE FilterLogs(_, _)
\* logs.filter(log => log.timing.startTime >= cutoffTime), half by half.  A
\* comparison with undefined is false
FilterLogs(logs, cutoffTime) ==
    IF logs = <<>> THEN <<>>
    ELSE IF Len(logs) = 1
    THEN IF logs[1].field = "startTime" /\ logs[1].t >= cutoffTime THEN logs ELSE <<>>
    ELSE LET half == Len(logs) \div 2 IN
         FilterLogs(SubSeq(logs, 1, half), cutoffTime)
             \o FilterLogs(SubSeq(logs, half + 1, Len(logs)), cutoffTime)

\* RequestLogger.cleanOldData(retentionDays) at time t; the unit of time is
\* the day
loggerCleanOldData(st, retentionDays, t, logsOk, infoOk, readOk, removeOk, setOk) ==
    LET cutoffTime == t - retentionDays
        logs == getAllLogs(st, logsOk)
        filteredLogs == FilterLogs(logs, cutoffTime)
    IN  IF Len(filteredLogs) < Len(logs)
        THEN save(st, LOGS_KEY, JSArray(filteredLogs), infoOk, readOk, removeOk, setOk)
        ELSE {Stored(st, "ok", Null, {})}

\* setMaxLogs(maxLogs)
setMaxLogs(st, maxLogs, infoOk, readOk, removeOk, setOk) ==
    IF maxLogs < 10 \/ maxLogs > 10000 THEN {Stored(st, "error", Null, {})}
    ELSE save(st, MAX_LOGS_KEY, JSNumber(maxLogs), infoOk, readOk, removeOk, setOk)

\* n stored logs of the given size, with ids and start times 1..n
StoredLogs(n, bytes) == [i \in 1..n |-> RequestLog(i, "startTime", i, bytes)]

\* the storages a logger behaviour starts from: empty; two logs; as many
\* logs as the default limit allows; a limit of 10 with 10 and with 9 logs;
\* logs that take 90% of the quota beside a timestamped entry; logs of
\* start time 0, of no start time and of start times around the cutoff
PreparedLogs ==
    {<<>>,
     (LOGS_KEY :> Text(JSArray(StoredLogs(2, 1024)))),
     (LOGS_KEY :> Text(JSArray(StoredLogs(DEFAULT_MAX_LOGS, 1024)))),
     (LOGS_KEY :> Text(JSArray(StoredLogs(10, 1024))) @@ MAX_LOGS_KEY :> Text(JSNumber(10))),
     (LOGS_KEY :> Text(JSArray(StoredLogs(9, 1024))) @@ MAX_LOGS_KEY :> Text(JSNumber(10))),
     (LOGS_KEY :> Text(JSArray(StoredLogs(9, MiB))) @@ "a" :> Stamped("timestamp", 1, 0)),
     (LOGS_KEY :> Text(JSArray(<<RequestLog(1, "startTime", 0, 1024),
                                 RequestLog(2, "none", 0, 1024),
                                 RequestLog(3, "startTime", 2, 1024),
                                 RequestLog(4, "startTime", 5, 1024)>>)))}

\* the logs handed to logRequest, before generateId
NewLogs == {[field |-> "startTime", t |-> Today, bytes |-> 1024],
            [field |-> "startTime", t |-> Today, bytes |-> MiB]}

\* the values handed to setMaxLogs
MaxLogsValues == {9, 10, 10001}

InitLogger ==
    /\ rules = <<>>
    /\ rulesKey = FALSE
    /\ now = Today
    /\ nextGen = 0
    /\ last = Call("none", "ok", FALSE, TRUE, "", EmptyRule, FALSE, NoRequest, <<>>)
    /\ pending = [c \in Callers |-> Idle(TRUE, FALSE, "none", "")]
    /\ hdr = NoHeaders
    /\ handler = [event |-> "none"]
    /\ race = [phase |-> "none"]
    /\ store \in PreparedLogs
    /\ ret = NoCall
    /\ MockInit

loggerIdle == <<rules, rulesKey, now, last, pending, hdr, handler, race, mockVars>>

\* a whole logRequest(log) call; generateId() hands out the ids -1, -2, ...
LogRequest ==
    /\ ret.calls < MaxOps
    /\ \E log \in NewLogs, logsOk, maxOk, infoOk, readOk, removeOk, setOk \in BOOLEAN :
        LET requestLog == RequestLog(0 - (nextGen + 1), log.field, log.t, log.bytes) IN
        /\ ~AtThreshold(getStorageInfo(store, infoOk)) => (readOk /\ removeOk)
        /\ ~readOk => removeOk
        /\ \E out \in logRequest(store, requestLog, logsOk, maxOk, infoOk, readOk,
                                 removeOk, setOk) :
            /\ store' = out.store
            /\ ret' = [StorageCall("logRequest", {LOGS_KEY}, requestLog, infoOk,
                                   readOk /\ removeOk, logsOk /\ maxOk /\ setOk, store,
                                   out, ret.calls + 1)
                         EXCEPT !.value = IF out.status = "ok" THEN JSNumber(requestLog.id)
                                          ELSE Null]
    /\ nextGen' = nextGen + 1
    /\ UNCHANGED loggerIdle

\* a whole RequestLogger.cleanOldData(retentionDays) call
LoggerCleanOldData ==
    /\ ret.calls < MaxOps
    /\ \E retentionDays \in RetentionDays, logsOk, infoOk, readOk, removeOk, setOk \in BOOLEAN :
        /\ ~AtThreshold(getStorageInfo(store, infoOk)) => (readOk /\ removeOk)
        /\ ~readOk => removeOk
        /\ \E out \in loggerCleanOldData(store, retentionDays, now, logsOk, infoOk,
                                         readOk, removeOk, setOk) :
            /\ (out.store = store /\ out.status = "ok")
                   => (infoOk /\ readOk /\ removeOk /\ setOk)
            /\ store' = out.store
            /\ ret' = StorageCall("logger.cleanOldData", {LOGS_KEY}, JSNumber(retentionDays),
                                  infoOk, readOk /\ removeOk, logsOk /\ setOk, store, out,
                                  ret.calls + 1)
    /\ UNCHANGED <<loggerIdle, nextGen>>

\* a whole setMaxLogs(maxLogs) call
SetMaxLogs ==
    /\ ret.calls < MaxOps
    /\ \E maxLogs \in MaxLogsValues, infoOk, readOk, removeOk, setOk \in BOOLEAN :
        /\ ~AtThreshold(getStorageInfo(store, infoOk)) => (readOk /\ removeOk)
        /\ ~readOk => removeOk
        /\ (maxLogs < 10 \/ maxLogs > 10000) => (infoOk /\ readOk /\ removeOk /\ setOk)
        /\ \E out \in setMaxLogs(store, maxLogs, infoOk, readOk, removeOk, setOk) :
            /\ store' = out.store
            /\ ret' = StorageCall("setMaxLogs", {MAX_LOGS_KEY}, JSNumber(maxLogs), infoOk,
                                  readOk /\ removeOk, setOk, store, out, ret.calls + 1)
    /\ UNCHANGED <<loggerIdle, nextGen>>

NextLogger ==
    \/ LogRequest
    \/ LoggerCleanOldData
    \/ SetMaxLogs

SpecLogger == InitLogger /\ [][NextLogger]_vars

\* ------------------------------------------------- claims, request logger
\* the logs a storage holds and the limit configured in it
LogsIn(st) == IF LOGS_KEY \in DOMAIN st THEN st[LOGS_KEY].json.items ELSE <<>>

ConfiguredMax(st) ==
    IF MAX_LOGS_KEY \in DOMAIN st THEN st[MAX_LOGS_KEY].json.t ELSE DEFAULT_MAX_LOGS

\* s is what is left of all after dropping entries from its front
IsSuffix(s, all) ==
    Len(s) <= Len(all) /\ s = SubSeq(all, Len(all) - Len(s) + 1, Len(all))

\* C16: a logRequest call made at 80% of the quota or above, all of whose
\* storage operations worked, removed stored logs from the oldest on and
\* left the usage below 80%.
C16_LogWritesFreeSpace ==
    (/\ ret.op = "logRequest" /\ ret.status = "ok"
     /\ ret.infoOk /\ ret.cleanupOk /\ ret.ioOk
     /\ AtThreshold(getBytesInUse(ret.before))) =>
        /\ IsSuffix(LogsIn(store), Append(LogsIn(ret.before), ret.values))
        /\ ~AtThreshold(getBytesInUse(store))

\* what C20 says of a completed logRequest call
LimitKept ==
    LET all == Append(LogsIn(ret.before), ret.values)
        stored == LogsIn(store)
    IN  /\ Len(stored) <= ConfiguredMax(ret.before)
        /\ stored # <<>> /\ stored[Len(stored)] = ret.values
        /\ IsSuffix(stored, all)
        /\ Len(all) <= ConfiguredMax(ret.before) => stored = all

\* C20: after a logRequest call the stored logs are at most the configured
\* max (default 1000), the new log is the last, and the logs stored before
\* are there in their order, only the oldest dropped and only when the
\* limit was exceeded.
C20_AtMostMaxNewestLast ==
    (ret.op = "logRequest" /\ ret.status = "ok") => LimitKept

\* the same for the calls whose reads of the logs and of the limit worked
C20_AtMostMaxNewestLastWhenReadsWork ==
    (ret.op = "logRequest" /\ ret.status = "ok" /\ ret.ioOk) => LimitKept

\* the default limit at work: the oldest of 1000 stored logs dropped
C20_TrimsAtDefault ==
    /\ ret.op = "logRequest" /\ ret.status = "ok" /\ ret.ioOk
    /\ Len(LogsIn(ret.before)) = DEFAULT_MAX_LOGS
    /\ Len(LogsIn(store)) = DEFAULT_MAX_LOGS
    /\ LogsIn(store)[1] = LogsIn(ret.before)[2]

\* the logger's cleanOldData removes exactly the logs whose start time is
\* older than now minus retentionDays days
C17_LoggerRemovesExactlyOlder ==
    (ret.op = "logger.cleanOldData" /\ ret.status = "ok" /\ ret.ioOk) =>
        \A i \in 1..Len(LogsIn(ret.before)) :
            LET log == LogsIn(ret.before)[i] IN
            (\E j \in 1..Len(LogsIn(store)) : LogsIn(store)[j] = log)
                <=> ~(log.field = "startTime" /\ log.t < now - ret.values.t)

\* the logger removed a log of start time 0
C17_LoggerRemovesZero ==
    /\ ret.op = "logger.cleanOldData" /\ ret.status = "ok" /\ ret.ioOk
    /\ \E i \in 1..Len(LogsIn(ret.before)) :
        /\ LogsIn(ret.before)[i].field = "startTime" /\ LogsIn(ret.before)[i].t = 0
        /\ \A j \in 1..Len(LogsIn(store)) : LogsIn(store)[j] # LogsIn(ret.before)[i]

\* --------------------------------------- request logger, response data
\* a stored RequestLog with its timing object; timing maps the fields it has
\* among startTime, endTime and duration to their values, responseStatus is 0
\* while the log has none
TimedLog(id, timing, responseStatus) ==
    [kind |-> "object",
     field |-> IF "startTime" \in DOMAIN timing THEN "startTime" ELSE "none",
     t |-> IF "startTime" \in DOMAIN timing THEN timing["startTime"] ELSE 0,
     items |-> <<>>, bytes |-> 1024, id |-> id, timing |-> timing,
     responseStatus |-> responseStatus]

\* logs.findIndex(log => log.id === requestId), 1-based; 0 when there is none
findLogIndex(logs, requestId) ==
    IF \E i \in 1..Len(logs) : logs[i].id = requestId
    THEN CHOOSE i \in 1..Len(logs) :
            /\ logs[i].id = requestId
            /\ \A j \in 1..(i - 1) : logs[j].id # requestId
    ELSE 0

\* { ...log, ...responseData, timing: { ...log.timing, ...(responseData.timing
\* || {}) } } and the duration, set when startTime and endTime are truthy
updatedLog(log, responseData) ==
    LET timing == (IF "timing" \in DOMAIN responseData THEN responseData["timing"]
                   ELSE <<>>) @@ log.timing
        timed == IF /\ "startTime" \in DOMAIN timing /\ timing["startTime"] # 0
                    /\ "endTime" \in DOMAIN timing /\ timing["endTime"] # 0
                 THEN ("duration" :> (timing["endTime"] - timing["startTime"])) @@ timing
                 ELSE timing
    IN  TimedLog(log.id, timed,
                 IF "responseStatus" \in DOMAIN responseData
                 THEN responseData["responseStatus"] ELSE log.responseStatus)

\* updateRequestWithResponse(requestId, responseData); the possible results
updateRequestWithResponse(st, requestId, responseData, logsOk, infoOk, readOk, removeOk, setOk) ==
    LET logs == getAllLogs(st, logsOk)
        logIndex == findLogIndex(logs, requestId)
    IN  IF logIndex = 0 THEN {Stored(st, "ok", Null, {})}
        ELSE save(st, LOGS_KEY,
                  JSArray([logs EXCEPT ![logIndex] = updatedLog(logs[logIndex], responseData)]),
                  infoOk, readOk, removeOk, setOk)

\* the storages an update starts from: no log, and two logs of which the
\* second already has its response
ResponseLogs ==
    {<<>>,
     (LOGS_KEY :> Text(JSArray(<<TimedLog(1, ("startTime" :> 3), 0),
                                 TimedLog(2, ("startTime" :> 1 @@ "endTime" :> 2
                                              @@ "duration" :> 1), 200)>>)))}

\* the response data handed in: a status alone, a status with an end time,
\* and a timing object that carries a start time of its own
ResponseData ==
    {("responseStatus" :> 200),
     ("responseStatus" :> 404 @@ "timing" :> ("endTime" :> 4)),
     ("responseStatus" :> 200 @@ "timing" :> ("startTime" :> 2 @@ "endTime" :> 4))}

RequestIds == {1, 2, 9}

InitResponse ==
    /\ rules = <<>>
    /\ rulesKey = FALSE
    /\ now = Today
    /\ nextGen = 0
    /\ last = Call("none", "ok", FALSE, TRUE, "", EmptyRule, FALSE, NoRequest, <<>>)
    /\ pending = [c \in Callers |-> Idle(TRUE, FALSE, "none", "")]
    /\ hdr = NoHeaders
    /\ handler = [event |-> "none"]
    /\ race = [phase |-> "none"]
    /\ store \in ResponseLogs
    /\ ret = NoCall
    /\ MockInit

\* a whole updateRequestWithResponse(requestId, responseData) call
UpdateRequestWithResponse ==
    /\ ret.calls < MaxOps
    /\ \E requestId \in RequestIds, responseData \in ResponseData,
          logsOk, infoOk, readOk, removeOk, setOk \in BOOLEAN :
        /\ ~AtThreshold(getStorageInfo(store, infoOk)) => (readOk /\ removeOk)
        /\ ~readOk => removeOk
        /\ findLogIndex(getAllLogs(store, logsOk), requestId) = 0
               => (infoOk /\ readOk /\ removeOk /\ setOk)
        /\ \E out \in updateRequestWithResponse(store, requestId, responseData, logsOk,
                                                infoOk, readOk, removeOk, setOk) :
            /\ store' = out.store
            /\ ret' = StorageCall("updateRequestWithResponse", {LOGS_KEY},
                                  [id |-> requestId, data |-> responseData], infoOk,
                                  readOk /\ removeOk, logsOk /\ setOk, store, out,
                                  ret.calls + 1)
    /\ UNCHANGED <<loggerIdle, nextGen>>

NextResponse == UpdateRequestWithResponse

SpecResponse == InitResponse /\ [][NextResponse]_vars

\* C21: updateRequestWithResponse never overwrites a log's start time: for
\* every response data, each log the call found in the storage has the same
\* timing.startTime after the call as before it.
C21_StartTimeKept ==
    ret.op = "updateRequestWithResponse"
        => \A i \in 1..Len(LogsIn(ret.before)) : \A j \in 1..Len(LogsIn(store)) :
               LogsIn(ret.before)[i].id = LogsIn(store)[j].id
                   => LogsIn(ret.before)[i].timing["startTime"]
                          = LogsIn(store)[j].timing["startTime"]

\* C21, the rest of the sentence: the other timing fields are merged field
\* by field, and a response data without a start time leaves the start time
C21_MergesFieldByField ==
    (/\ ret.op = "updateRequestWithResponse"
     /\ ret.status = "ok"
     /\ findLogIndex(LogsIn(ret.before), ret.values.id) # 0
     /\ ret.ioOk)
        => LET old == LogsIn(ret.before)[findLogIndex(LogsIn(ret.before), ret.values.id)]
               new == LogsIn(store)[findLogIndex(LogsIn(store), ret.values.id)]
               given == IF "timing" \in DOMAIN ret.values.data
                        THEN ret.values.data["timing"] ELSE <<>>
           IN  /\ \A f \in DOMAIN given : new.timing[f] = given[f] \/ f = "duration"
               /\ \A f \in DOMAIN old.timing \ (DOMAIN given \cup {"duration"}) :
                      new.timing[f] = old.timing[f]

\* ------------------------------------------- overlapping onBeforeRequest
MaxRequests == 3

\* The webRequest listener calls onBeforeRequest(details) without awaiting it
\* (initialize), so handler runs overlap at their awaits.  A run is split at
\* the await of logRequest's getAllLogs(): before it the run has generated
\* the log's id and read the stored logs, after it the run pushes its log,
\* trims and saves.  No rule is stored, so every run takes the branch that
\* only logs.
Logging(log, snap) == [op |-> "logRequest", log |-> log, snap |-> snap]

NotLogging == [op |-> "idle"]

\* what the handler runs of a behaviour did so far: the ids of the logs
\* whose logRequest returned, whether two runs overlapped, whether a storage
\* call of a run failed
HandlerRuns(logged, overlapped, failed) ==
    [op |-> "onBeforeRequest", logged |-> logged, overlapped |-> overlapped,
     failed |-> failed]

InitOverlap ==
    /\ rules = <<>>
    /\ rulesKey = FALSE
    /\ now = Today
    /\ nextGen = 0
    /\ last = Call("none", "ok", FALSE, TRUE, "", EmptyRule, FALSE, NoRequest, <<>>)
    /\ pending = [c \in Callers |-> NotLogging]
    /\ hdr = NoHeaders
    /\ handler = [event |-> "none"]
    /\ race = [phase |-> "none"]
    /\ store \in {<<>>, (LOGS_KEY :> Text(JSArray(StoredLogs(2, 1024))))}
    /\ ret = HandlerRuns({}, FALSE, FALSE)
    /\ MockInit

overlapIdle == <<rules, rulesKey, now, last, hdr, handler, race, mockVars>>

\* onBeforeRequest up to the await of getAllLogs() in logRequest
BeginOnBeforeRequest(c) ==
    /\ pending[c].op = "idle"
    /\ nextGen < MaxRequests
    /\ \E logsOk \in BOOLEAN :
        /\ pending' = [pending EXCEPT ![c] =
               Logging(RequestLog(0 - (nextGen + 1), "startTime", now, 1024),
                       getAllLogs(store, logsOk))]
        /\ ret' = [ret EXCEPT !.overlapped = @ \/ (\E d \in Callers : pending[d].op # "idle"),
                              !.failed = @ \/ ~logsOk]
    /\ nextGen' = nextGen + 1
    /\ UNCHANGED <<overlapIdle, store>>

\* the rest of the run: logs.push(requestLog), the trim, the save; a failed
\* save is caught by the handler
FinishOnBeforeRequest(c) ==
    /\ pending[c].op = "logRequest"
    /\ \E maxOk, infoOk, setOk \in BOOLEAN :
        LET logs == Append(pending[c].snap, pending[c].log)
            maxLogs == getMaxLogs(store, maxOk)
        IN  \E out \in save(store, LOGS_KEY, JSArray(Trimmed(logs, maxLogs)), infoOk,
                            TRUE, TRUE, setOk) :
                /\ store' = out.store
                /\ ret' = [ret EXCEPT
                       !.logged = IF out.status = "ok" THEN @ \cup {pending[c].log.id} ELSE @,
                       !.failed = @ \/ ~maxOk \/ ~infoOk \/ ~setOk]
    /\ pending' = [pending EXCEPT ![c] = NotLogging]
    /\ UNCHANGED <<overlapIdle, nextGen>>

NextOverlap ==
    \E c \in Callers :
        \/ BeginOnBeforeRequest(c)
        \/ FinishOnBeforeRequest(c)

SpecOverlap == InitOverlap /\ [][NextOverlap]_vars

\* how many stored logs have the id
TimesLogged(id) ==
    Cardinality({i \in 1..Len(LogsIn(store)) : LogsIn(store)[i].id = id})

\* C22: once every handler in flight has finished, each request whose
\* handler ran to completion has exactly one entry, under its own id, in the
\* stored logs, also when handler runs overlapped (no storage call of a run
\* having failed).
C22_EveryCompletedRequestLogged ==
    ((\A c \in Callers : pending[c].op = "idle") /\ ~ret.failed)
        => \A id \in ret.logged : TimesLogged(id) = 1

\* C22 for handler runs that follow one another and whose storage calls work
C22_LoggedWhenRunsDoNotOverlap ==
    ((\A c \in Callers : pending[c].op = "idle") /\ ~ret.overlapped /\ ~ret.failed)
        => \A id \in ret.logged : TimesLogged(id) = 1

\* ------------------------------- background: messages and mock responses
\* a dynamic declarativeNetRequest rule: its numeric id, which
\* generateDeclarativeRuleId hashes from the rule id and the index of the
\* mock action, is the pair itself (distinct pairs get distinct ids); ruleId
\* is the rule it was converted from
DeclarativeRule(ruleId, index) == [id |-> <<ruleId, index>>, ruleId |-> ruleId]

\* convertRuleToDeclarativeNetRequest(rule): one redirect rule for every mock
\* action that has a mockResponse, numbered among the mock actions from 0
convertRuleToDeclarativeNetRequest(rule) ==
    LET mockActions == SelectSeq(rule.actions, LAMBDA a : a.type = "mock") IN
    {DeclarativeRule(rule.id, i - 1) :
        i \in {j \in 1..Len(mockActions) : "mockResponse" \in mockActions[j].has}}

\* what a MockResponseManager call leaves, and whether it threw
MockState(dyn, active, status) == [dyn |-> dyn, active |-> active, status |-> status]

\* chrome.declarativeNetRequest.updateDynamicRules({removeRuleIds, addRules}):
\* the ids are removed, then the rules added, as one atomic operation that
\* rejects, changing nothing, when an added rule has the id of a rule that
\* stays registered
updateRejects(dyn, removeRuleIds, addRules) ==
    \E d \in addRules : d.id \in {x.id : x \in dyn} \ removeRuleIds

updateDynamicRules(dyn, removeRuleIds, addRules) ==
    {d \in dyn : d.id \notin removeRuleIds} \cup addRules

\* registerMockRules(rules); dnrOk is whether getDynamicRules and
\* updateDynamicRules resolve
registerMockRules(rs, dyn, active, dnrOk) ==
    LET declarativeRules ==
            UNION {convertRuleToDeclarativeNetRequest(rs[i]) :
                      i \in {j \in 1..Len(rs) : rs[j].enabled}}
        existingMockRuleIds ==
            {d.id : d \in dyn} \cap {active[k] : k \in DOMAIN active}
        \* activeMockRules.set(originalRuleId, declarativeRuleId): the last
        \* declarative rule of a rule stays
        mapping == [k \in {d.ruleId : d \in declarativeRules} |->
                       CHOOSE id \in {d.id : d \in declarativeRules} :
                           /\ id[1] = k
                           /\ \A d \in declarativeRules : d.ruleId = k => d.id[2] <= id[2]]
    IN  IF declarativeRules = {} THEN MockState(dyn, active, "ok")
        ELSE IF ~dnrOk \/ updateRejects(dyn, existingMockRuleIds, declarativeRules)
        THEN MockState(dyn, active, "error")
        ELSE MockState(updateDynamicRules(dyn, existingMockRuleIds, declarativeRules),
                       mapping, "ok")

\* removeMockRules(ruleId)
removeMockRules(ruleId, dyn, active, dnrOk) ==
    IF ruleId \notin DOMAIN active THEN MockState(dyn, active, "ok")
    ELSE IF ~dnrOk THEN MockState(dyn, active, "error")
    ELSE MockState(updateDynamicRules(dyn, {active[ruleId]}, {}),
                   [k \in DOMAIN active \ {ruleId} |-> active[k]], "ok")

\* clearAllMockRules()
clearAllMockRules(dyn, active, dnrOk) ==
    LET mockRuleIds == {d.id : d \in dyn} \cap {active[k] : k \in DOMAIN active}
    IN  IF mockRuleIds = {} THEN MockState(dyn, active, "ok")
        ELSE IF ~dnrOk THEN MockState(dyn, active, "error")
        ELSE MockState(updateDynamicRules(dyn, mockRuleIds, {}), <<>>, "ok")

\* a message to the background page
Message(type, payload, ruleId, enabled) ==
    [type |-> type, payload |-> payload, ruleId |-> ruleId, enabled |-> enabled]

\* what handleMessage leaves when it responds: the stored rules, the dynamic
\* rules and the manager's map; persisted: the rule engine wrote the
\* mutation; broadcast: notifyRuleUpdate sent RULE_UPDATED; status: the
\* response ("error" for a handler that threw); reached: the storage and
\* declarativeNetRequest calls the handler got to
Reply(rs, mock, persisted, broadcast, status, reached) ==
    [rules |-> rs, dyn |-> mock.dyn, active |-> mock.active, persisted |-> persisted,
     broadcast |-> broadcast, status |-> status, reached |-> reached]

\* registerMockRules(await getRules()) and notifyRuleUpdate(), the tail of
\* the SAVE_RULE, TOGGLE_RULE and RULE_UPDATED cases
registerAndNotify(rs, mock, persisted, reached, rereadOk, dnrOk) ==
    LET updatedRules == getRules(rs, rereadOk)
        reg == registerMockRules(updatedRules, mock.dyn, mock.active, dnrOk)
        calls == reached \cup {"reread"} \cup
                 (IF \E i \in 1..Len(updatedRules) :
                         /\ updatedRules[i].enabled
                         /\ convertRuleToDeclarativeNetRequest(updatedRules[i]) # {}
                  THEN {"dnr"} ELSE {})
    IN  IF reg.status = "error" THEN Reply(rs, mock, persisted, FALSE, "error", calls)
        ELSE Reply(rs, reg, persisted, TRUE, "ok", calls)

\* handleMessage(message), on the stored collection
handleMessage(message, stored, mock, gen, t, readOk, writeOk, rereadOk, dnrOk) ==
    CASE message.type = "SAVE_RULE" ->
            LET out == saveRule(stored, getRules(stored, readOk), message.payload, gen, t,
                                writeOk)
                calls == IF validateRule(message.payload) THEN {"read", "write"} ELSE {}
            IN  IF out.status = "error"
                THEN Reply(stored, mock, FALSE, FALSE, "error", calls)
                ELSE registerAndNotify(out.rules, mock, TRUE, calls, rereadOk, dnrOk)
      [] message.type = "DELETE_RULE" ->
            LET rem == removeMockRules(message.ruleId, mock.dyn, mock.active, dnrOk)
                out == deleteRule(stored, getRules(stored, readOk), message.ruleId, writeOk)
                calls == (IF message.ruleId \in DOMAIN mock.active THEN {"dnr"} ELSE {})
                         \cup (IF rem.status = "ok" THEN {"read"} ELSE {})
                         \cup (IF rem.status = "ok" /\ out.wrote THEN {"write"} ELSE {})
            IN  IF rem.status = "error"
                THEN Reply(stored, mock, FALSE, FALSE, "error", calls)
                ELSE IF out.status = "error"
                THEN Reply(stored, rem, FALSE, FALSE, "error", calls)
                ELSE Reply(out.rules, rem, out.wrote, TRUE, "ok", calls)
      [] message.type = "TOGGLE_RULE" ->
            LET out == toggleRule(stored, getRules(stored, readOk), message.ruleId,
                                  message.enabled, t, writeOk)
                calls == {"read"} \cup (IF out.wrote THEN {"write"} ELSE {})
            IN  IF out.status = "error"
                THEN Reply(stored, mock, FALSE, FALSE, "error", calls)
                ELSE registerAndNotify(out.rules, mock, TRUE, calls, rereadOk, dnrOk)
      [] OTHER ->
            \* RULE_UPDATED
            registerAndNotify(stored, mock, FALSE, {}, rereadOk, dnrOk)

\* a rule with one mock action, and a rule that sets a header
MockRule(id, enabled) ==
    Partial({"id", "matchType", "priority", "enabled"}, id, GlobAll, "glob", Num(1),
            enabled, <<MockAction(200)>>, <<>>)

HeaderRule(id) ==
    Partial({"id", "matchType", "priority", "enabled"}, id, GlobAll, "glob", Num(1),
            TRUE, <<SetHeaderAction>>, <<>>)

MockIds == {"m", "n"}

\* the messages the extension's pages send
Messages ==
    {Message("SAVE_RULE", MockRule(id, TRUE), id, TRUE) : id \in MockIds}
        \cup {Message("SAVE_RULE", HeaderRule("h"), "h", TRUE),
              Message("RULE_UPDATED", EmptyRule, "", FALSE)}
        \cup {Message("TOGGLE_RULE", EmptyRule, id, enabled) :
                 id \in MockIds, enabled \in BOOLEAN}
        \cup {Message("DELETE_RULE", EmptyRule, id, FALSE) : id \in MockIds}

\* a message handled: the message, what the handler did, and whether a call
\* the handler made failed
Responded(message, out, failed) ==
    [event |-> message.type, ruleId |-> message.ruleId, enabled |-> message.enabled,
     persisted |-> out.persisted, broadcast |-> out.broadcast, status |-> out.status,
     failed |-> failed]

InitBackground ==
    /\ rules = <<>>
    /\ rulesKey = FALSE
    /\ now = 0
    /\ nextGen = 0
    /\ last = Call("none", "ok", FALSE, TRUE, "", EmptyRule, FALSE, NoRequest, <<>>)
    /\ pending = [c \in Callers |-> Idle(TRUE, FALSE, "none", "")]
    /\ hdr = NoHeaders
    /\ IdleInit

\* a whole handleMessage(message) run, up to the response; a call the run
\* does not reach is held at success
HandleMessage ==
    \E message \in Messages, readOk, writeOk, rereadOk, dnrOk \in BOOLEAN :
        LET out == handleMessage(message, rules, MockState(dynamicRules, activeMockRules, "ok"),
                                 GenIds[nextGen + 1], now, readOk, writeOk, rereadOk, dnrOk)
        IN  /\ "read" \notin out.reached => readOk
            /\ "write" \notin out.reached => writeOk
            /\ "reread" \notin out.reached => rereadOk
            /\ "dnr" \notin out.reached => dnrOk
            /\ Len(out.rules) <= MaxRules
            /\ rules' = out.rules
            /\ rulesKey' = (rulesKey \/ out.persisted)
            /\ dynamicRules' = out.dyn
            /\ activeMockRules' = out.active
            /\ handler' = Responded(message, out,
                                    ~(readOk /\ writeOk /\ rereadOk /\ dnrOk))
            /\ UNCHANGED <<now, nextGen, last, pending, hdr, race, store, ret, exported,
                           pendingRequests>>

NextBackground == HandleMessage

SpecBackground == InitBackground /\ [][NextBackground]_vars

\* the dynamic rules converted from the rule of this id
DerivedFrom(ruleId) == {d \in dynamicRules : d.ruleId = ruleId}

\* C23: once a message that registers the mock rules (TOGGLE_RULE, SAVE_RULE,
\* RULE_UPDATED) has been handled without a failure, no dynamic
\* declarativeNetRequest rule derived from a stored rule that is disabled is
\* registered, whatever the other rules are.
C23_DisabledMockNotRegistered ==
    (/\ handler.event \in {"TOGGLE_RULE", "SAVE_RULE", "RULE_UPDATED"}
     /\ handler.status = "ok"
     /\ ~handler.failed)
        => \A i \in 1..Len(rules) : ~rules[i].enabled => DerivedFrom(rules[i].id) = {}

\* C23 while another mock rule stays enabled: the registration is replaced
C23_DisabledMockNotRegisteredBesideAnother ==
    (/\ handler.event \in {"TOGGLE_RULE", "SAVE_RULE", "RULE_UPDATED"}
     /\ handler.status = "ok"
     /\ ~handler.failed
     /\ \E j \in 1..Len(rules) :
            rules[j].enabled /\ convertRuleToDeclarativeNetRequest(rules[j]) # {})
        => \A i \in 1..Len(rules) : ~rules[i].enabled => DerivedFrom(rules[i].id) = {}

\* C24: when the handler of a SAVE_RULE, DELETE_RULE or TOGGLE_RULE message
\* responds and the rule engine has persisted the message's mutation, the
\* handler has broadcast RULE_UPDATED.
C24_PersistedThenBroadcast ==
    (handler.event \in {"SAVE_RULE", "DELETE_RULE", "TOGGLE_RULE"} /\ handler.persisted)
        => handler.broadcast

\* C24 for the handlers whose calls all succeed
C24_BroadcastWhenNothingFails ==
    (/\ handler.event \in {"SAVE_RULE", "DELETE_RULE", "TOGGLE_RULE"}
     /\ handler.persisted
     /\ ~handler.failed)
        => handler.broadcast

\* ------------------------------------------- rule engine, conditions
\* an enabled rule that matches every URL, with the conditions given
\* (none: the rule has no conditions key)
ConditionRule(id, priority, conditions) ==
    NewRule(Partial({"id", "matchType", "priority", "enabled"}
                        \cup (IF conditions = <<>> THEN {} ELSE {"conditions"}),
                    id, GlobAll, "glob", Num(priority), TRUE, <<BlockAction>>, conditions),
            id, 0)

\* rules without conditions, with an empty list, with a method condition,
\* with resource type conditions, with both, and with a header condition
ConditionRules ==
    {ConditionRule("n", 1, <<>>),
     [ConditionRule("e", 2, <<>>) EXCEPT !.has = @ \cup {"conditions"}],
     ConditionRule("g", 3, GetOnly),
     ConditionRule("x", 4, <<Condition("resourceType", "equals", <<"x">>)>>),
     ConditionRule("y", 5, <<Condition("resourceType", "contains", <<"y">>)>>),
     ConditionRule("gy", 6, GetOnly \o <<Condition("resourceType", "equals", <<"y">>)>>),
     ConditionRule("gx", 7, GetOnly \o <<Condition("resourceType", "regex", <<"x">>)>>),
     ConditionRule("hd", 8, <<Condition("header", "equals", <<"x", "-", "t">>)>>)}

\* the stored collections: up to two different rules, in either order
ConditionCollections ==
    {<<>>} \cup {<<r>> : r \in ConditionRules}
           \cup {c \in {<<r, q>> : r \in ConditionRules, q \in ConditionRules} :
                     c[1] # c[2]}

InitConditions ==
    /\ rules \in ConditionCollections
    /\ rulesKey = TRUE
    /\ now = 0
    /\ nextGen = 0
    /\ last = Call("none", "ok", FALSE, TRUE, "", EmptyRule, FALSE, NoRequest, <<>>)
    /\ pending = [c \in Callers |-> Idle(TRUE, FALSE, "none", "")]
    /\ hdr = NoHeaders
    /\ IdleInit

NextConditions == EvaluateRequest

SpecConditions == InitConditions /\ [][NextConditions]_vars

\* whether a declared condition holds for the request.  RequestDetails has
\* a method and a resource type and no headers: no header condition holds
\* for it
ConditionHolds(c, req) ==
    CASE c.type = "method" -> evaluateCondition(req.method, c.operator, c.value)
      [] c.type = "resourceType" -> evaluateCondition(req.type, c.operator, c.value)
      [] OTHER -> FALSE

\* C25: a rule that evaluateRequest returns has every condition it declares
\* (method, resourceType or header) holding for the request; a rule without
\* conditions, or with an empty list, is not held back by them.
C25_EveryConditionHolds ==
    last.op = "evaluateRequest"
        => \A i \in 1..Len(last.result) :
               \A k \in 1..Len(last.result[i].conditions) :
                   ConditionHolds(last.result[i].conditions[k], last.req)

\* C25 without the header conditions: every method and resourceType
\* condition of a returned rule holds, and when the read succeeds every
\* stored rule whose conditions all hold (none, for an absent or empty
\* list) is returned
C25_MethodAndTypeConditionsHold ==
    last.op = "evaluateRequest"
        => /\ \A i \in 1..Len(last.result) :
                  \A k \in 1..Len(last.result[i].conditions) :
                      last.result[i].conditions[k].type # "header"
                          => ConditionHolds(last.result[i].conditions[k], last.req)
           /\ last.readOk
                  => \A j \in 1..Len(rules) :
                         (\A k \in 1..Len(rules[j].conditions) :
                              ConditionHolds(rules[j].conditions[k], last.req))
                             => \E i \in 1..Len(last.result) : last.result[i] = rules[j]

\* C30: evaluateRequest only reads: a call leaves the stored rules, the key
\* and the storage the logs are kept in as they were, writes nothing, and
\* what it returns is determined by the stored collection it read and its
\* request, so that calls cannot affect one another's results.
C30_EvaluateRequestReadsOnly ==
    [][last'.op = "evaluateRequest"
           => /\ rules' = rules /\ rulesKey' = rulesKey /\ store' = store
              /\ ~last'.wrote
              /\ last'.result \in evaluateRequest(getRules(rules, last'.readOk),
                                                  last'.req)]_vars

\* a call that returned two rules of a stored collection
C30_Witness ==
    last.op = "evaluateRequest" /\ Len(last.result) = 2 /\ Len(rules) = 2

\* ------------------------------------------ rule engine, stored rules
MaxEdits == 2

\* a rule stored earlier: created at createdAt, last updated at updatedAt
StoredRule(id, enabled, actions, createdAt, updatedAt) ==
    [NewRule(Partial({"id", "matchType", "priority", "enabled"}, id, GlobAll, "glob",
                     Num(1), enabled, actions, <<>>), id, createdAt)
        EXCEPT !.updatedAt = updatedAt]

\* the collections a behaviour starts from: none, one rule, two rules in
\* either order, and two rules of one id (as importRules stores them)
EditCollections ==
    LET a == StoredRule("a", TRUE, <<BlockAction>>, 1, 2)
        b == StoredRule("b", FALSE, <<SetHeaderAction>>, 2, 3)
        a2 == StoredRule("a", FALSE, <<SetHeaderAction>>, 3, 3)
    IN  {<<>>, <<a>>, <<a, b>>, <<b, a>>, <<a, a2>>}

\* the arguments of saveRule: a rule without an id; new fields for rule
\* "a"; the whole of a rule "a" as a page holds it, timestamps included; a
\* rule under an id that no page was given by the engine; a new pattern for
\* rule "r", without a matchType
EditPartials ==
    {Partial({"matchType", "priority"}, "", GlobAll, "glob", Num(1), FALSE,
             <<BlockAction>>, <<>>),
     Partial({"id", "matchType", "priority", "enabled"}, "a", GlobA, "glob", Num(2),
             FALSE, <<SetHeaderAction>>, <<>>),
     [Partial({"id", "matchType", "priority", "enabled", "createdAt", "updatedAt"}, "a",
              GlobAll, "glob", Num(1), TRUE, <<BlockAction>>, <<>>)
         EXCEPT !.createdAt = 0, !.updatedAt = 1],
     Partial({"id", "matchType", "priority", "enabled"}, "z", GlobAll, "glob", Num(1),
             TRUE, <<BlockAction>>, <<>>),
     Partial({"id"}, "r", <<"(">>, "", Num(0), FALSE, <<BlockAction>>, <<>>)}

\* the ids handed to deleteRule and toggleRule
EditIds == {"a", "b"}

InitEdit ==
    /\ rules \in EditCollections
    /\ rulesKey = TRUE
    /\ now = Today
    /\ nextGen = 0
    /\ last = Call("none", "ok", FALSE, TRUE, "", EmptyRule, FALSE, NoRequest, <<>>)
    /\ pending = [c \in Callers |-> Idle(TRUE, FALSE, "none", "")]
    /\ hdr = NoHeaders
    /\ IdleInit

\* In this specification every call reads a later clock: a call at time
\* now leaves the clock at now + 1.
\* a whole saveRule(rule) call
EditSaveRule ==
    /\ now < Today + MaxEdits
    /\ \E p \in EditPartials, readOk \in BOOLEAN, writeOk \in BOOLEAN :
        LET generates == validateRule(p) /\ ~IsTruthyId(p)
            updates == /\ validateRule(p) /\ IsTruthyId(p)
                       /\ findIndex(getRules(rules, readOk), p.id) # 0
            out == saveRule(rules, getRules(rules, readOk), p,
                            GenIds[nextGen + 1], now, writeOk)
        IN  /\ generates => nextGen < MaxGen
            /\ readOk \/ writeOk
            /\ Len(out.rules) <= MaxRules
            /\ rules' = out.rules
            /\ rulesKey' = (rulesKey \/ (out.status = "ok" /\ out.wrote))
            /\ nextGen' = IF generates THEN nextGen + 1 ELSE nextGen
            /\ last' = Call("saveRule", out.status, out.wrote, readOk, out.id, p,
                            updates, NoRequest, <<>>)
    /\ now' = now + 1
    /\ UNCHANGED <<pending, hdr, idleVars>>

\* a whole deleteRule(id) call
EditDeleteRule ==
    /\ now < Today + MaxEdits
    /\ \E id \in EditIds, readOk \in BOOLEAN, writeOk \in BOOLEAN :
        LET out == deleteRule(rules, getRules(rules, readOk), id, writeOk)
        IN  /\ ~out.wrote => writeOk
            /\ readOk \/ writeOk
            /\ rules' = out.rules
            /\ rulesKey' = (rulesKey \/ (out.status = "ok" /\ out.wrote))
            /\ last' = Call("deleteRule", out.status, out.wrote, readOk, id, EmptyRule,
                            FALSE, NoRequest, <<>>)
    /\ now' = now + 1
    /\ UNCHANGED <<nextGen, pending, hdr, idleVars>>

\* a whole toggleRule(id, enabled) call
EditToggleRule ==
    /\ now < Today + MaxEdits
    /\ \E id \in EditIds, enabled \in BOOLEAN, readOk \in BOOLEAN, writeOk \in BOOLEAN :
        LET out == toggleRule(rules, getRules(rules, readOk), id, enabled, now, writeOk)
        IN  /\ ~out.wrote => writeOk
            /\ readOk \/ writeOk
            /\ rules' = out.rules
            /\ rulesKey' = (rulesKey \/ (out.status = "ok" /\ out.wrote))
            /\ last' = Call("toggleRule", out.status, out.wrote, readOk, id, EmptyRule,
                            enabled, NoRequest, <<>>)
    /\ now' = now + 1
    /\ UNCHANGED <<nextGen, pending, hdr, idleVars>>

NextEdit ==
    \/ EditSaveRule
    \/ EditDeleteRule
    \/ EditToggleRule

SpecEdit == InitEdit /\ [][NextEdit]_vars

\* the ids of the stored rules
StoredIds == {rules[i].id : i \in {j \in 1..Len(rules) : "id" \in rules[j].has}}

\* the step is a call of the operation, made at time now
IsCall(op) == last'.op = op /\ now' = now + 1

\* saveRule updated the rule at index in place: same place, same createdAt,
\* updatedAt now, every other rule as it was
UpdatedInPlace(index) ==
    /\ Len(rules') = Len(rules)
    /\ rules'[index].id = rules[index].id
    /\ rules'[index].createdAt = rules[index].createdAt
    /\ rules'[index].updatedAt = now
    /\ \A j \in 1..Len(rules) : j # index => rules'[j] = rules[j]

\* saveRule appended a new rule: generated id (when wanted), both
\* timestamps now, every stored rule as it was
CreatedNew(generated) ==
    /\ Len(rules') = Len(rules) + 1
    /\ SubSeq(rules', 1, Len(rules)) = rules
    /\ generated => (/\ rules'[Len(rules')].id = GenIds[nextGen + 1]
                     /\ rules'[Len(rules')].id \notin StoredIds)
    /\ rules'[Len(rules')].createdAt = now
    /\ rules'[Len(rules')].updatedAt = now

\* C26: a saveRule that succeeds with an id matching a stored rule updates
\* that rule in place, keeps its createdAt whatever the partial carries and
\* sets updatedAt to now; a saveRule without a matching id appends a new
\* rule with both timestamps now, under a freshly generated id when the
\* partial brought none.
C26_UpdatesInPlaceOrCreates ==
    [][(IsCall("saveRule") /\ last'.status = "ok" /\ last'.readOk)
           => LET index == IF IsTruthyId(last'.arg) THEN findIndex(rules, last'.arg.id)
                           ELSE 0
              IN  IF index # 0 THEN UpdatedInPlace(index)
                  ELSE CreatedNew(~IsTruthyId(last'.arg))]_vars

\* C26, the id of a new rule: every saveRule without a matching id stores
\* the new rule under a freshly generated id
C26_CreatesUnderFreshId ==
    [][(/\ IsCall("saveRule") /\ last'.status = "ok" /\ last'.readOk
        /\ (~IsTruthyId(last'.arg) \/ findIndex(rules, last'.arg.id) = 0))
           => CreatedNew(TRUE)]_vars

\* C26 for the partials that carry no createdAt, a new rule keeping the id
\* its partial brought
C26_WithoutCreatedAt ==
    [][(/\ IsCall("saveRule") /\ last'.status = "ok" /\ last'.readOk
        /\ "createdAt" \notin last'.arg.has)
           => LET index == IF IsTruthyId(last'.arg) THEN findIndex(rules, last'.arg.id)
                           ELSE 0
              IN  IF index # 0 THEN UpdatedInPlace(index)
                  ELSE CreatedNew(~IsTruthyId(last'.arg))]_vars

\* C27: a deleteRule whose id no stored rule has is a no-op: no error, no
\* storage write, the collection as it was; a deleteRule whose id is stored
\* and that succeeds leaves exactly the rules of other ids, in their order.
C27_DeleteRemovesOrNoOp ==
    [][IsCall("deleteRule")
           => IF last'.id \notin StoredIds
              THEN last'.status = "ok" /\ ~last'.wrote /\ rules' = rules
              ELSE last'.status = "ok"
                       => rules' = SeqFilter(rules, {r \in Range(rules) :
                                                        ~HasId(r, last'.id)})]_vars

\* C27 for the calls whose read of the collection succeeds
C27_WhenTheReadWorks ==
    [][(IsCall("deleteRule") /\ last'.readOk)
           => IF last'.id \notin StoredIds
              THEN last'.status = "ok" /\ ~last'.wrote /\ rules' = rules
              ELSE last'.status = "ok"
                       => rules' = SeqFilter(rules, {r \in Range(rules) :
                                                        ~HasId(r, last'.id)})]_vars

exportRules(rs) == Text(rs)

\* the collections an export starts from: none, one rule, two rules, and a
\* rule matched by a regular expression
RoundTripCollections ==
    {<<>>,
     <<StoredRule("a", TRUE, <<BlockAction>>, 1, 2)>>,
     <<StoredRule("a", TRUE, <<BlockAction>>, 1, 2),
       StoredRule("b", FALSE, <<SetHeaderAction>>, 2, 3)>>,
     <<[StoredRule("r", TRUE, <<BlockAction>>, 1, 2)
           EXCEPT !.matchType = "regex", !.urlPattern = RegexB]>>}

InitRoundTrip ==
    /\ rules \in RoundTripCollections
    /\ rulesKey = TRUE
    /\ now = Today
    /\ nextGen = 0
    /\ last = Call("none", "ok", FALSE, TRUE, "", EmptyRule, FALSE, NoRequest, <<>>)
    /\ pending = [c \in Callers |-> Idle(TRUE, FALSE, "none", "")]
    /\ hdr = NoHeaders
    /\ IdleInit

\* a whole exportRules() call; the caller keeps the text
ExportRules ==
    \E readOk \in BOOLEAN :
        /\ exported' = exportRules(getRules(rules, readOk))
        /\ last' = Call("exportRules", "ok", FALSE, readOk, "", EmptyRule, FALSE,
                        NoRequest, <<>>)
        /\ UNCHANGED <<rules, rulesKey, now, nextGen, pending, hdr, handler, race, store,
                       ret, dynamicRules, activeMockRules, pendingRequests>>

\* a whole importRules(exported, replace) call on the text the caller kept;
\* result holds the count the call returned
ImportExported ==
    /\ exported # <<>>
    /\ \E replace \in BOOLEAN, readOk \in BOOLEAN, writeOk \in BOOLEAN :
        LET out == importRules(rules, getRules(rules, readOk), TRUE, exported.json,
                               replace, writeOk)
        IN  /\ (replace \/ ~out.wrote) => readOk
            /\ ~out.wrote => writeOk
            /\ Len(out.rules) <= MaxRules
            /\ rules' = out.rules
            /\ rulesKey' = (rulesKey \/ (out.status = "ok" /\ out.wrote))
            /\ last' = Call("importRules", out.status, out.wrote, readOk, "", EmptyRule,
                            replace, NoRequest,
                            IF out.status = "ok" THEN <<out.count>> ELSE <<>>)
    /\ UNCHANGED <<now, nextGen, pending, hdr, idleVars>>

NextRoundTrip ==
    \/ EditSaveRule
    \/ ExportRules
    \/ ClearAllRules
    \/ ImportExported

SpecRoundTrip == InitRoundTrip /\ [][NextRoundTrip]_vars

\* the step is an importRules call on the exported text, in the given mode,
\* whose storage calls all succeed
ImportsExported(replace) ==
    /\ last'.op = "importRules" /\ last'.flag = replace
    /\ rules' # rules \/ last' # last
    /\ last'.readOk
    /\ last'.status = "error" => ~last'.wrote

\* C29: importRules(exported, replace=true), after exportRules and
\* clearAllRules, restores a collection equal to the exported one and
\* returns its length; importRules(exported) in merge mode leaves the
\* stored rules in place and appends the imported ones after them.
C29_ExportImportRestores ==
    [][/\ ImportsExported(TRUE)
           => /\ last'.status = "ok"
              /\ rules' = exported.json
              /\ last'.result = <<Len(exported.json)>>
       /\ ImportsExported(FALSE)
           => /\ last'.status = "ok"
              /\ rules' = rules \o exported.json
              /\ last'.result = <<Len(exported.json)>>]_vars

\* C29 for the exported collections all of whose rules pass validateRule
C29_RestoresValidRules ==
    [][/\ (/\ ImportsExported(TRUE)
           /\ \A i \in 1..Len(exported.json) : validateRule(exported.json[i]))
           => /\ last'.status = "ok"
              /\ rules' = exported.json
              /\ last'.result = <<Len(exported.json)>>
       /\ (/\ ImportsExported(FALSE)
           /\ \A i \in 1..Len(exported.json) : validateRule(exported.json[i]))
           => /\ last'.status = "ok"
              /\ rules' = rules \o exported.json
              /\ last'.result = <<Len(exported.json)>>]_vars

\* ------------------------------------- claims, storage manager, failures
\* the storage a save or saveMultiple call wrote into: what its eviction
\* left; and the items it had to write
AfterEviction == Without(ret.before, ret.evicted)

ItemsToWrite == [k \in ret.keys |-> JSONstringify(ret.values[k])]

\* C31: save and saveMultiple go on to their write after the eviction step,
\* whatever the eviction did: a call that completes has written its items
\* into what the eviction left, and a call that throws threw at its write
\* (or at serialising a value), never because its eviction threw or left
\* the usage at or above the threshold.
C31_WriteFollowsEviction ==
    ret.op \in {"save", "saveMultiple"}
        => IF ret.status = "ok"
           THEN store = Put(AfterEviction, ItemsToWrite)
           ELSE /\ store = AfterEviction
                /\ \/ \E k \in ret.keys : ret.values[k].kind = "undefined"
                   \/ setRejects(AfterEviction, ItemsToWrite, ret.ioOk)

\* a save at the threshold whose eviction threw and that wrote its value
C31_Witness ==
    /\ ret.op = "save" /\ ret.status = "ok"
    /\ ret.infoOk /\ AtThreshold(getBytesInUse(ret.before))
    /\ ~ret.cleanupOk /\ ret.evicted = {}
    /\ ret.keys \subseteq DOMAIN store
    /\ store # ret.before

\* a save whose eviction removed entries, left the usage at or above the
\* threshold, and that wrote its value
C31_StillAboveThreshold ==
    /\ ret.op = "save" /\ ret.status = "ok"
    /\ ret.evicted # {}
    /\ AtThreshold(getBytesInUse(AfterEviction))
    /\ store = Put(AfterEviction, ItemsToWrite)

\* C32: a failure inside cleanOldData is logged and swallowed: a cleanOldData
\* call of the storage layer completes without raising an error to its
\* caller, also when its read of the storage or its remove fails.
C32_CleanupNeverRaises ==
    ret.op = "cleanOldData" => ret.status = "ok"

\* the same for the request logger's cleanOldData, whose save can fail
C32_LoggerCleanupNeverRaises ==
    ret.op = "logger.cleanOldData" => ret.status = "ok"

\* a storage cleanOldData whose read or remove failed raises, and a save
\* whose eviction failed does not
C32_RaisesOnlyWhenStorageFails ==
    /\ ret.op = "cleanOldData" => (ret.status = "ok" <=> ret.ioOk)
    /\ (ret.op = "save" /\ ret.status = "error")
           => \/ \E k \in ret.keys : ret.values[k].kind = "undefined"
              \/ setRejects(AfterEviction, ItemsToWrite, ret.ioOk)

\* ------------------------------------------------ request logger, clearLogs
\* a stored log of a tab
TabLog(id, tabId) == RequestLog(id, "startTime", id, 1024) @@ [tabId |-> tabId]

\* logs.filter(log => log.tabId !== tabId)
OtherTabs(logs, tabId) ==
    LET differs(log) == log.tabId # tabId IN SelectSeq(logs, differs)

\* clearLogs(tabId?), the possible results; tab is <<>> for a call without
\* tab id and <<tabId>> for a call with one
clearLogs(st, tab, logsOk, infoOk, readOk, removeOk, setOk) ==
    IF tab # <<>>
    THEN save(st, LOGS_KEY, JSArray(OtherTabs(getAllLogs(st, logsOk), tab[1])),
              infoOk, readOk, removeOk, setOk)
    ELSE {remove(st, LOGS_KEY, removeOk)}

\* the storages a clearLogs call starts from: no log; logs of three tabs,
\* those of a tab not adjacent; logs of one tab; a log beside another key
ClearableLogs ==
    {<<>>,
     (LOGS_KEY :> Text(JSArray(<<TabLog(1, 1), TabLog(2, 2), TabLog(3, 1), TabLog(4, 3)>>))),
     (LOGS_KEY :> Text(JSArray(<<TabLog(1, 2), TabLog(2, 2)>>))),
     (LOGS_KEY :> Text(JSArray(<<TabLog(1, 3)>>)) @@ "a" :> Text(JSObject("timestamp", 1, 1024)))}

TabArguments == {<<>>, <<1>>, <<2>>, <<7>>}

InitClear ==
    /\ rules = <<>>
    /\ rulesKey = FALSE
    /\ now = Today
    /\ nextGen = 0
    /\ last = Call("none", "ok", FALSE, TRUE, "", EmptyRule, FALSE, NoRequest, <<>>)
    /\ pending = [c \in Callers |-> Idle(TRUE, FALSE, "none", "")]
    /\ hdr = NoHeaders
    /\ handler = [event |-> "none"]
    /\ race = [phase |-> "none"]
    /\ store \in ClearableLogs
    /\ ret = NoCall
    /\ MockInit

\* a whole clearLogs(tabId?) call
ClearLogs ==
    /\ ret.calls < MaxOps
    /\ \E tab \in TabArguments, logsOk, infoOk, readOk, removeOk, setOk \in BOOLEAN :
        /\ tab = <<>> => (logsOk /\ infoOk /\ readOk /\ setOk)
        /\ tab # <<>> => (/\ ~AtThreshold(getStorageInfo(store, infoOk)) => (readOk /\ removeOk)
                         /\ ~readOk => removeOk)
        /\ \E out \in clearLogs(store, tab, logsOk, infoOk, readOk, removeOk, setOk) :
            /\ store' = out.store
            /\ ret' = StorageCall("clearLogs", {LOGS_KEY}, tab, infoOk, readOk /\ removeOk,
                                  logsOk /\ setOk, store, out, ret.calls + 1)
    /\ UNCHANGED <<loggerIdle, nextGen>>

NextClear == ClearLogs

SpecClear == InitClear /\ [][NextClear]_vars

\* C33: a clearLogs call without tab id that completes leaves the log
\* collection empty, and a clearLogs(tabId) call that completes leaves
\* exactly the logs stored before whose tabId differs, in their order.
C33_ClearsAllOrTheTab ==
    (ret.op = "clearLogs" /\ ret.status = "ok")
        => IF ret.values = <<>> THEN LogsIn(store) = <<>>
           ELSE LogsIn(store) = OtherTabs(LogsIn(ret.before), ret.values[1])

\* C33 for the calls whose read of the stored logs worked
C33_WhenTheReadWorks ==
    (ret.op = "clearLogs" /\ ret.status = "ok" /\ ret.ioOk)
        => IF ret.values = <<>> THEN LogsIn(store) = <<>>
           ELSE LogsIn(store) = OtherTabs(LogsIn(ret.before), ret.values[1])

\* a clearLogs(1) that kept the logs of the tabs 2 and 3 and removed the two
\* logs of tab 1
C33_ClearedOneTab ==
    /\ ret.op = "clearLogs" /\ ret.status = "ok" /\ ret.values = <<1>>
    /\ Len(LogsIn(ret.before)) = 4
    /\ Len(LogsIn(store)) = 2
    /\ LogsIn(store)[1].tabId = 2 /\ LogsIn(store)[2].tabId = 3

\* a clearLogs(tabId) whose read of the logs failed and that removed the
\* logs of other tabs
C33_ClearedOtherTabs ==
    /\ ret.op = "clearLogs" /\ ret.status = "ok" /\ ret.values # <<>>
    /\ \E i \in 1..Len(LogsIn(ret.before)) : LogsIn(ret.before)[i].tabId # ret.values[1]
    /\ LogsIn(store) = <<>>

\* ------------------------------------------- claims, the registered listeners
\* the BlockingResponse a handler run computed
Computed(handled) ==
    [decision |-> handled.decision, redirectUrl |-> handled.redirectUrl,
     headers |-> handled.headers]

\* C35: for every interception event, the value the listener registered in
\* initialize() returns to the host is the decision its handler computed:
\* cancel, the redirect URL or the modified header set.
C35_ListenerReturnsDecision ==
    handler.event # "none" => handler.returned = Computed(handler)

\* what the listeners do return: undefined, whatever the handler computed
C35_ListenerReturnsUndefined ==
    handler.event # "none" => handler.returned.decision = "none"

\* a handler run that computed cancel while its listener returned undefined
C35_CancelNotReturned ==
    /\ handler.event = "onBeforeRequest"
    /\ handler.decision = "cancel"
    /\ handler.returned.decision = "none"

\* --------------------------------- request interceptor, a request's events
\* The host delivers onBeforeRequest for a request and later onCompleted or
\* onErrorOccurred; no listener awaits its handler (initialize), so the runs
\* of the handlers proceed between one another's awaits.  No rule is stored:
\* onBeforeRequest takes the branch that only logs.  Storage is below the
\* quota threshold; a read of the logs or a write can fail.

\* a stored log: request is not a field of the code's RequestLog, it names
\* the request whose handler created the entry
LifeLog(id, request, url, timing, responseStatus, error) ==
    TimedLog(id, timing, responseStatus) @@ [url |-> url, request |-> request, error |-> error]

\* the requests of a behaviour, by chrome's requestId
InterceptedRequests == {1, 2}

\* the url and timeStamp of the request's onBeforeRequest details: the
\* second request can have the url and the time stamp of the first
BeforeDetails(r) ==
    IF r = 1 THEN {[url |-> "u", timeStamp |-> 1]}
    ELSE {[url |-> "u", timeStamp |-> 1], [url |-> "u", timeStamp |-> 2],
          [url |-> "v", timeStamp |-> 1]}

\* the statusCode and timeStamp of the request's onCompleted details, the
\* timeStamp of its onErrorOccurred details
EndDetails(r) == [statusCode |-> IF r = 1 THEN 200 ELSE 404, timeStamp |-> 4 + r]

\* the handler runs of a request: where the onBeforeRequest run (before) and
\* the onCompleted or onErrorOccurred run (end, of the given kind) stand, with
\* the locals they hold: the log logRequest is writing, the logs it read, the
\* pending entry the end run got, the id of the log it found, and whether a
\* storage call threw inside the end run
Runs(details, before, end, kind, log, snap, got, logId, threw) ==
    [details |-> details, before |-> before, end |-> end, kind |-> kind, log |-> log,
     snap |-> snap, got |-> got, logId |-> logId, threw |-> threw]

NoLog == LifeLog(0, 0, "", <<>>, 0, FALSE)

NoPending == [id |-> 0, startTime |-> 0]

NotDelivered == Runs([url |-> "", timeStamp |-> 0], "new", "new", "none", NoLog, <<>>, NoPending, 0, FALSE)

\* whether a run of the request is between its delivery and its end
Running(r) == pending[r].before \notin {"new", "done"} \/ pending[r].end \notin {"new", "done"}

\* what the runs of a behaviour met so far: a storage call that failed, a
\* delivery while another run was under way
Lifecycle(failed, overlapped) == [op |-> "lifecycle", failed |-> failed, overlapped |-> overlapped]

InitLifecycle ==
    /\ rules = <<>>
    /\ rulesKey = FALSE
    /\ now = Today
    /\ nextGen = 0
    /\ last = Call("none", "ok", FALSE, TRUE, "", EmptyRule, FALSE, NoRequest, <<>>)
    /\ pending = [r \in InterceptedRequests |-> NotDelivered]
    /\ hdr = NoHeaders
    /\ handler = [event |-> "none"]
    /\ race = [phase |-> "none"]
    /\ store = <<>>
    /\ ret = Lifecycle(FALSE, FALSE)
    /\ dynamicRules = {}
    /\ activeMockRules = <<>>
    /\ exported = <<>>
    /\ pendingRequests = <<>>

lifecycleIdle == <<rules, rulesKey, now, last, hdr, handler, race, dynamicRules, activeMockRules, exported>>

Delivered == ret' = [ret EXCEPT !.overlapped = @ \/ (\E q \in InterceptedRequests : Running(q))]

\* pendingRequests.delete(requestId)
deletePending(requestId) == [q \in DOMAIN pendingRequests \ {requestId} |-> pendingRequests[q]]

\* onBeforeRequest up to its first await: generateId() and
\* pendingRequests.set(details.requestId, {id, startTime})
OnBeforeRequestDelivered(r) ==
    /\ pending[r].before = "new"
    /\ \E details \in BeforeDetails(r) :
        /\ pending' = [pending EXCEPT ![r].details = details, ![r].before = "set"]
        /\ pendingRequests' = (r :> [id |-> 0 - (nextGen + 1), startTime |-> details.timeStamp])
                                  @@ pendingRequests
    /\ nextGen' = nextGen + 1
    /\ Delivered
    /\ UNCHANGED <<lifecycleIdle, store>>

\* onBeforeRequest from the evaluation of the rules (none matches) to the
\* await of getAllLogs() inside logRequest, which generates the log's id
OnBeforeRequestReadsLogs(r) ==
    /\ pending[r].before = "set"
    /\ \E logsOk \in BOOLEAN :
        /\ pending' = [pending EXCEPT
               ![r].before = "read",
               ![r].log = LifeLog(0 - (nextGen + 1), r, pending[r].details.url,
                                  ("startTime" :> pending[r].details.timeStamp), 0, FALSE),
               ![r].snap = getAllLogs(store, logsOk)]
        /\ ret' = [ret EXCEPT !.failed = @ \/ ~logsOk]
    /\ nextGen' = nextGen + 1
    /\ UNCHANGED <<lifecycleIdle, store, pendingRequests>>

\* the rest of logRequest and of onBeforeRequest: push, save; the handler
\* catches a failed save
OnBeforeRequestSavesLog(r) ==
    /\ pending[r].before = "read"
    /\ \E setOk \in BOOLEAN :
        \E out \in save(store, LOGS_KEY, JSArray(Append(pending[r].snap, pending[r].log)),
                        TRUE, TRUE, TRUE, setOk) :
            /\ store' = out.store
            /\ ret' = [ret EXCEPT !.failed = @ \/ ~setOk]
    /\ pending' = [pending EXCEPT ![r].before = "done", ![r].snap = <<>>]
    /\ UNCHANGED <<lifecycleIdle, nextGen, pendingRequests>>

\* the end event's handler up to its first await:
\* pendingRequests.get(details.requestId), and the return when there is none
EndDelivered(r, kind) ==
    /\ pending[r].before # "new"
    /\ pending[r].end = "new"
    /\ pending' = [pending EXCEPT
           ![r].kind = kind,
           ![r].end = IF r \in DOMAIN pendingRequests THEN "got" ELSE "done",
           ![r].got = IF r \in DOMAIN pendingRequests THEN pendingRequests[r] ELSE NoPending]
    /\ Delivered
    /\ UNCHANGED <<lifecycleIdle, store, nextGen, pendingRequests>>

OnCompletedDelivered(r) == EndDelivered(r, "onCompleted")

OnErrorOccurredDelivered(r) == EndDelivered(r, "onErrorOccurred")

\* logs.find(l => l.url === details.url && l.timing.startTime ===
\* pending.startTime), as an index; 0 when there is none
findLogOf(logs, url, startTime) ==
    LET matches(i) == /\ logs[i].url = url
                      /\ "startTime" \in DOMAIN logs[i].timing
                      /\ logs[i].timing["startTime"] = startTime
    IN  IF \E i \in 1..Len(logs) : matches(i)
        THEN CHOOSE i \in 1..Len(logs) : matches(i) /\ \A j \in 1..(i - 1) : ~matches(j)
        ELSE 0

\* onCompleted: getAllLogs() and the search for the request's log; with no
\* log found the run deletes the pending entry and ends
OnCompletedFindsLog(r) ==
    /\ pending[r].kind = "onCompleted" /\ pending[r].end = "got"
    /\ \E logsOk \in BOOLEAN :
        LET logs == getAllLogs(store, logsOk)
            found == findLogOf(logs, pending[r].details.url, pending[r].got.startTime)
        IN  /\ pending' = [pending EXCEPT
                   ![r].end = IF found = 0 THEN "done" ELSE "found",
                   ![r].logId = IF found = 0 THEN 0 ELSE logs[found].id]
            /\ pendingRequests' = IF found = 0 THEN deletePending(r) ELSE pendingRequests
            /\ ret' = [ret EXCEPT !.failed = @ \/ ~logsOk]
    /\ UNCHANGED <<lifecycleIdle, store, nextGen>>

\* onCompleted: getAllLogs() inside updateRequestWithResponse
OnCompletedReadsLogs(r) ==
    /\ pending[r].kind = "onCompleted" /\ pending[r].end = "found"
    /\ \E logsOk \in BOOLEAN :
        /\ pending' = [pending EXCEPT ![r].end = "read", ![r].snap = getAllLogs(store, logsOk)]
        /\ ret' = [ret EXCEPT !.failed = @ \/ ~logsOk]
    /\ UNCHANGED <<lifecycleIdle, store, nextGen, pendingRequests>>

\* the response data onCompleted hands to updateRequestWithResponse
responseOf(r) ==
    "responseStatus" :> EndDetails(r).statusCode
        @@ "timing" :> ("startTime" :> pending[r].got.startTime
                        @@ "endTime" :> EndDetails(r).timeStamp
                        @@ "duration" :> (EndDetails(r).timeStamp - pending[r].got.startTime))

\* the rest of updateRequestWithResponse and of onCompleted: the log of the
\* id is replaced and the logs are saved, or no log has the id; then the
\* pending entry is deleted.  A failed save leaves the run through its catch
\* block, before the delete
OnCompletedUpdatesLog(r) ==
    /\ pending[r].kind = "onCompleted" /\ pending[r].end = "read"
    /\ LET logs == pending[r].snap
           logIndex == findLogIndex(logs, pending[r].logId)
       IN  IF logIndex = 0
           THEN /\ pendingRequests' = deletePending(r)
                /\ pending' = [pending EXCEPT ![r].end = "done", ![r].snap = <<>>]
                /\ UNCHANGED <<store, ret>>
           ELSE \E setOk \in BOOLEAN :
                \E out \in save(store, LOGS_KEY,
                                JSArray([logs EXCEPT ![logIndex] =
                                            updatedLog(logs[logIndex], responseOf(r)) @@ @]),
                                TRUE, TRUE, TRUE, setOk) :
                    /\ store' = out.store
                    /\ pendingRequests' = IF out.status = "ok" THEN deletePending(r)
                                          ELSE pendingRequests
                    /\ pending' = [pending EXCEPT ![r].end = "done", ![r].snap = <<>>,
                                                  ![r].threw = out.status # "ok"]
                    /\ ret' = [ret EXCEPT !.failed = @ \/ ~setOk]
    /\ UNCHANGED <<lifecycleIdle, nextGen>>

\* onErrorOccurred: the await of getAllLogs() inside logRequest, which
\* generates the id of a new log
OnErrorOccurredReadsLogs(r) ==
    /\ pending[r].kind = "onErrorOccurred" /\ pending[r].end = "got"
    /\ \E logsOk \in BOOLEAN :
        /\ pending' = [pending EXCEPT
               ![r].end = "read",
               ![r].log = LifeLog(0 - (nextGen + 1), r, pending[r].details.url,
                                  ("startTime" :> pending[r].got.startTime
                                   @@ "endTime" :> EndDetails(r).timeStamp), 0, TRUE),
               ![r].snap = getAllLogs(store, logsOk)]
        /\ ret' = [ret EXCEPT !.failed = @ \/ ~logsOk]
    /\ nextGen' = nextGen + 1
    /\ UNCHANGED <<lifecycleIdle, store, pendingRequests>>

\* the rest of logRequest and of onErrorOccurred: push, save, then the
\* delete of the pending entry, which a failed save skips
OnErrorOccurredSavesLog(r) ==
    /\ pending[r].kind = "onErrorOccurred" /\ pending[r].end = "read"
    /\ \E setOk \in BOOLEAN :
        \E out \in save(store, LOGS_KEY, JSArray(Append(pending[r].snap, pending[r].log)),
                        TRUE, TRUE, TRUE, setOk) :
            /\ store' = out.store
            /\ pendingRequests' = IF out.status = "ok" THEN deletePending(r)
                                  ELSE pendingRequests
            /\ pending' = [pending EXCEPT ![r].end = "done", ![r].snap = <<>>,
                                          ![r].threw = out.status # "ok"]
            /\ ret' = [ret EXCEPT !.failed = @ \/ ~setOk]
    /\ UNCHANGED <<lifecycleIdle, nextGen>>

NextLifecycle ==
    \E r \in InterceptedRequests :
        \/ OnBeforeRequestDelivered(r)
        \/ OnBeforeRequestReadsLogs(r)
        \/ OnBeforeRequestSavesLog(r)
        \/ OnCompletedDelivered(r)
        \/ OnCompletedFindsLog(r)
        \/ OnCompletedReadsLogs(r)
        \/ OnCompletedUpdatesLog(r)
        \/ OnErrorOccurredDelivered(r)
        \/ OnErrorOccurredReadsLogs(r)
        \/ OnErrorOccurredSavesLog(r)

SpecLifecycle == InitLifecycle /\ [][NextLifecycle]_vars

\* ------------------------------------------- claims, a request's events
\* the stored logs the handlers of the request created
EntriesOf(r) == {i \in 1..Len(LogsIn(store)) : LogsIn(store)[i].request = r}

\* both handler runs of the request have ended
Finished(r) == pending[r].before = "done" /\ pending[r].end = "done"

\* C34: each intercepted request yields exactly one RequestLog entry, created
\* at onBeforeRequest and mutated when onCompleted or onErrorOccurred
\* arrives, never a second entry: once both handler runs of a request have
\* ended (no storage call having failed, no run having overlapped another)
\* the stored logs hold exactly one entry that the request's handlers
\* created.
C34_OneEntryPerRequest ==
    (~ret.failed /\ ~ret.overlapped)
        => \A r \in InterceptedRequests : Finished(r) => Cardinality(EntriesOf(r)) = 1

\* C34 for the requests that end with onCompleted
C34_OneEntryWhenCompleted ==
    (~ret.failed /\ ~ret.overlapped)
        => \A r \in InterceptedRequests :
               (Finished(r) /\ pending[r].kind = "onCompleted")
                   => Cardinality(EntriesOf(r)) = 1

\* a request that ended with onErrorOccurred and has two entries, the second
\* with the error
C34_SecondEntry ==
    /\ ~ret.failed /\ ~ret.overlapped
    /\ Finished(1) /\ pending[1].kind = "onErrorOccurred"
    /\ Cardinality(EntriesOf(1)) = 2
    /\ \E i \in EntriesOf(1) : LogsIn(store)[i].error
    /\ \E i \in EntriesOf(1) : ~LogsIn(store)[i].error

\* an entry of the request carries the response of the request
CarriesResponse(r) ==
    \E i \in EntriesOf(r) :
        /\ LogsIn(store)[i].responseStatus = EndDetails(r).statusCode
        /\ "endTime" \in DOMAIN LogsIn(store)[i].timing
        /\ LogsIn(store)[i].timing["endTime"] = EndDetails(r).timeStamp

\* another request was delivered with the url and the time stamp of the request
SharesUrlAndStart(r) ==
    \E q \in InterceptedRequests \ {r} :
        pending[q].before # "new" /\ pending[q].details = pending[r].details

\* C38: for every request whose onBeforeRequest and onCompleted were both
\* delivered, once both handler runs have ended (no storage call having
\* failed) the log entry created for the request carries the request's
\* response status and end time, however the storage steps of the runs
\* interleaved and also when another request has the same url and start time.
C38_CompletedRequestHasResponse ==
    ~ret.failed
        => \A r \in InterceptedRequests :
               (Finished(r) /\ pending[r].kind = "onCompleted") => CarriesResponse(r)

\* C38 for runs that do not overlap and requests that differ in url or start
\* time
C38_WhenInOrderAndDistinct ==
    (~ret.failed /\ ~ret.overlapped)
        => \A r \in InterceptedRequests :
               (Finished(r) /\ pending[r].kind = "onCompleted" /\ ~SharesUrlAndStart(r))
                   => CarriesResponse(r)

\* two requests of one url and start time, both completed, no run overlapping
\* another: the entry of the first carries a response, that of the second none
C38_ResponseOnTheOtherEntry ==
    /\ ~ret.failed /\ ~ret.overlapped
    /\ \A r \in InterceptedRequests : Finished(r) /\ pending[r].kind = "onCompleted"
    /\ SharesUrlAndStart(2)
    /\ \A i \in EntriesOf(2) : LogsIn(store)[i].responseStatus = 0

\* a completed request whose entry has no response because onCompleted read
\* the logs before onBeforeRequest had written the entry
C38_CompletedBeforeLogged ==
    /\ ~ret.failed /\ pending[2].before = "new"
    /\ Finished(1) /\ pending[1].kind = "onCompleted"
    /\ Cardinality(EntriesOf(1)) = 1
    /\ ~CarriesResponse(1)

\* C39: after the onCompleted or onErrorOccurred run of a request has ended,
\* pendingRequests holds no entry for the request, whether or not the storage
\* operations inside the run succeeded.
C39_NoPendingAfterEnd ==
    \A r \in InterceptedRequests : pending[r].end = "done" => r \notin DOMAIN pendingRequests

\* C39 for the runs in which no save threw
C39_NoPendingUnlessSaveThrew ==
    \A r \in InterceptedRequests :
        (pending[r].end = "done" /\ ~pending[r].threw) => r \notin DOMAIN pendingRequests

\* every run of every request has ended and a pending entry is left
C39_LeftPending ==
    /\ \A r \in InterceptedRequests : Finished(r)
    /\ pendingRequests # <<>>

\* ----------------------------- storage manager beside the rules and the logs
RULES_KEY == "modification_rules"

\* the storages a behaviour starts from, each with the rules and the logs,
\* arrays of objects that carry createdAt and timing.startTime: at the
\* threshold beside a timestamped entry and an entry without timestamp;
\* below the threshold beside two timestamped entries; at the threshold
\* with nothing else
StoresWithArrays ==
    {(RULES_KEY :> Text(JSArray(<<JSObject("createdAt", 1, MiB)>>))
       @@ LOGS_KEY :> Text(JSArray(StoredLogs(2, 3 * MiB)))
       @@ "c" :> Stamped("timestamp", 2, 1) @@ "d" :> Plain(1)),
     (RULES_KEY :> Text(JSArray(<<JSObject("createdAt", 1, MiB)>>))
       @@ LOGS_KEY :> Text(JSArray(StoredLogs(2, MiB)))
       @@ "c" :> Stamped("createdAt", 1, 1) @@ "e" :> Stamped("startTime", 5, 1)),
     (RULES_KEY :> Text(JSArray(<<JSObject("createdAt", 1, 4 * MiB)>>))
       @@ LOGS_KEY :> Text(JSArray(StoredLogs(1, 5 * MiB))))}

InitRetention ==
    /\ rules = <<>>
    /\ rulesKey = FALSE
    /\ now = Today
    /\ nextGen = 0
    /\ last = Call("none", "ok", FALSE, TRUE, "", EmptyRule, FALSE, NoRequest, <<>>)
    /\ pending = [c \in Callers |-> Idle(TRUE, FALSE, "none", "")]
    /\ hdr = NoHeaders
    /\ handler = [event |-> "none"]
    /\ race = [phase |-> "none"]
    /\ store \in StoresWithArrays
    /\ ret = NoCall
    /\ MockInit

NextRetention ==
    \/ Save
    \/ SaveMultiple
    \/ CleanOldData

SpecRetention == InitRetention /\ [][NextRetention]_vars

\* the stored item is an object with a timestamp, createdAt or
\* timing.startTime field
HasTimestampField(item) ==
    item.kind = "string" /\ item.json.kind = "object"
        /\ item.json.field \in {"timestamp", "createdAt", "startTime"}

\* C36: neither the eviction inside save and saveMultiple nor the storage
\* layer's cleanOldData removes an entry without a recognisable timestamp
\* field: every such entry stored before the call is stored after it, and
\* unchanged unless the call wrote its key; so the rules key and the logs
\* key, which hold arrays, survive every eviction and retention cleanup.
C36_UntimestampedSurvive ==
    ret.op \in {"save", "saveMultiple", "cleanOldData"}
        => \A k \in DOMAIN ret.before :
               ~HasTimestampField(ret.before[k])
                   => /\ k \in DOMAIN store
                      /\ k \notin Written => store[k] = ret.before[k]

\* a save whose eviction removed an entry and left the rules and the logs
C36_Witness ==
    /\ ret.op = "save" /\ ret.status = "ok"
    /\ DOMAIN ret.before \ DOMAIN store # {}
    /\ {RULES_KEY, LOGS_KEY} \subseteq DOMAIN ret.before
    /\ store[RULES_KEY] = ret.before[RULES_KEY]
    /\ store[LOGS_KEY] = ret.before[LOGS_KEY]

\* a cleanOldData that removed an entry and left the rules and the logs,
\* whose elements are older than the cutoff
C36_CleanedBesideArrays ==
    /\ ret.op = "cleanOldData" /\ ret.status = "ok"
    /\ DOMAIN ret.before \ DOMAIN store # {}
    /\ {RULES_KEY, LOGS_KEY} \subseteq DOMAIN store
    /\ store[RULES_KEY].json.items[1].t < now - ret.values.t

\* ------------------------------------------ claims, rules beside the target
\* every rule stored before the step under another id than the call's is
\* stored after it, unchanged
OthersKept ==
    \A i \in 1..Len(rules) :
        ~HasId(rules[i], last'.id) => \E j \in 1..Len(rules') : rules'[j] = rules[i]

\* C37: with a single caller, a saveRule, toggleRule or deleteRule call that
\* returns successfully changes only the targeted rule: every other rule
\* stored before the call is stored after it, unchanged, whether or not the
\* read of the collection inside the call succeeded.
C37_OtherRulesKept ==
    [][((IsCall("saveRule") \/ IsCall("toggleRule") \/ IsCall("deleteRule"))
            /\ last'.status = "ok")
           => OthersKept]_vars

\* C37 for the calls whose read of the collection succeeded
C37_WhenTheReadWorks ==
    [][((IsCall("saveRule") \/ IsCall("toggleRule") \/ IsCall("deleteRule"))
            /\ last'.status = "ok" /\ last'.readOk)
           => OthersKept]_vars

\* the first call of a behaviour, a saveRule that succeeded after its read had
\* failed: its own rule is the only rule stored
C37_OthersLost ==
    /\ last.op = "saveRule" /\ last.status = "ok" /\ ~last.readOk
    /\ Len(rules) = 1 /\ rules[1].id = last.id
    /\ now = Today + 1

\* ------------------------------------------ mock response manager, its calls
\* a stored rule with two mock actions
TwoMockRule(id) == [MockRule(id, TRUE) EXCEPT !.actions = <<MockAction(200), MockAction(404)>>]

\* the rule lists handed to registerMockRules: none, one rule with one and
\* with two mock actions, two rules, a disabled rule
RuleLists ==
    {<<>>,
     <<MockRule("m", TRUE)>>,
     <<TwoMockRule("m")>>,
     <<MockRule("m", TRUE), MockRule("n", TRUE)>>,
     <<TwoMockRule("m"), MockRule("n", TRUE)>>,
     <<MockRule("m", FALSE)>>,
     <<MockRule("m", FALSE), TwoMockRule("n")>>}

\* a MockResponseManager call that completed: the call, its argument,
\* whether it threw, and whether the declarativeNetRequest calls resolved
ManagerCall(event, arg, status, dnrOk) ==
    [event |-> event, arg |-> arg, status |-> status, dnrOk |-> dnrOk]

InitMock ==
    /\ rules = <<>>
    /\ rulesKey = FALSE
    /\ now = 0
    /\ nextGen = 0
    /\ last = Call("none", "ok", FALSE, TRUE, "", EmptyRule, FALSE, NoRequest, <<>>)
    /\ pending = [c \in Callers |-> Idle(TRUE, FALSE, "none", "")]
    /\ hdr = NoHeaders
    /\ IdleInit

mockIdle == <<rules, rulesKey, now, nextGen, last, pending, hdr, race, store, ret, exported, pendingRequests>>

\* a whole registerMockRules(rules) call
RegisterMockRules ==
    \E rs \in RuleLists, dnrOk \in BOOLEAN :
        LET out == registerMockRules(rs, dynamicRules, activeMockRules, dnrOk) IN
        /\ dynamicRules' = out.dyn
        /\ activeMockRules' = out.active
        /\ handler' = ManagerCall("registerMockRules", rs, out.status, dnrOk)
        /\ UNCHANGED mockIdle

\* a whole removeMockRules(ruleId) call
RemoveMockRules ==
    \E ruleId \in MockIds, dnrOk \in BOOLEAN :
        LET out == removeMockRules(ruleId, dynamicRules, activeMockRules, dnrOk) IN
        /\ dynamicRules' = out.dyn
        /\ activeMockRules' = out.active
        /\ handler' = ManagerCall("removeMockRules", <<ruleId>>, out.status, dnrOk)
        /\ UNCHANGED mockIdle

\* a whole clearAllMockRules() call
ClearAllMockRules ==
    \E dnrOk \in BOOLEAN :
        LET out == clearAllMockRules(dynamicRules, activeMockRules, dnrOk) IN
        /\ dynamicRules' = out.dyn
        /\ activeMockRules' = out.active
        /\ handler' = ManagerCall("clearAllMockRules", <<>>, out.status, dnrOk)
        /\ UNCHANGED mockIdle

NextMock ==
    \/ RegisterMockRules
    \/ RemoveMockRules
    \/ ClearAllMockRules

SpecMock == InitMock /\ [][NextMock]_vars

\* the ids activeMockRules holds, and the ids of the dynamic rules
\* registered: no dynamic rule is registered at the start and only the
\* manager registers and removes
TrackedIds == {activeMockRules[k] : k \in DOMAIN activeMockRules}

RegisteredIds == {d.id : d \in dynamicRules}

\* C40: after any sequence of registerMockRules, removeMockRules and
\* clearAllMockRules calls, the ids held in activeMockRules are exactly the
\* ids of the dynamic rules the manager registered and has not removed, the
\* rules of each of several mock actions of one rule included.
C40_TrackedAreTheRegistered == TrackedIds = RegisteredIds

\* C40, its last part: no tracked id refers to a rule no longer registered
C40_TrackedAreRegistered == TrackedIds \subseteq RegisteredIds

\* after a clearAllMockRules that succeeded a dynamic rule is registered that
\* the manager no longer tracks
C40_RegisteredAfterClear ==
    /\ handler.event = "clearAllMockRules" /\ handler.status = "ok" /\ handler.dnrOk
    /\ activeMockRules = <<>>
    /\ dynamicRules # {}

====
